---- MODULE Spec2Model ----
(***************************************************************************)
(* A model of the INAD analysis engine of src/inad_analysis.py: the        *)
(* three-step screening pipeline (calculate_step1, calculate_step2,        *)
(* calculate_step3_enhanced), the single-period driver run_full_analysis,  *)
(* the multi-period driver run_multi_semester_analysis and the systemic    *)
(* case detector detect_systemic_cases.                                    *)
(*                                                                         *)
(* Floating-point densities are modelled as exact rationals <<n, d>>.      *)
(* A pandas table is a sequence of records (its rows, in row order); the   *)
(* case table inad_df, whose row order no modelled operation reads, is a   *)
(* multiset: the number of rows of each (route, Included) kind.            *)
(***************************************************************************)
EXTENDS Integers, Sequences, FiniteSets, TLC

VARIABLES
    pc,                 \* control point of the entry point being executed
    config,             \* the caller's configuration dict (<<>> is None)
    config0,            \* the caller's configuration dict as it was at the call
    args,               \* the other arguments of the call
    result,             \* what run_full_analysis returned (or where it raised)
    idx,                \* run_multi_semester_analysis: position in sorted(semesters)
    loaded,             \* run_multi_semester_analysis: the data read per period so far
    semester_results,   \* run_multi_semester_analysis: the summary rows
    historical_step3,   \* the (label, Step3) pairs given to the detector
    systemic,           \* the table detect_systemic_cases returned
    previous            \* what an earlier run on the same inputs returned

vars == <<pc, config, config0, args, result, idx, loaded, semester_results,
          historical_step3, systemic, previous>>

----------------------------------------------------------------------------
(* Bounds of the model *)

\* number of (airline, route) keys of the single-period specification
NumRoutes == 3
\* longest list of periods given to the multi-period driver and the detector
MaxPeriods == 3
\* the most rows of the case worksheet
MaxRows == 2
\* the largest case count given to calculate_confidence_score
MaxCases == 25

----------------------------------------------------------------------------
(* Exact rationals <<n, d>>, d > 0, in lowest terms *)

RECURSIVE GCD(_, _)
GCD(a, b) == IF b = 0 THEN a ELSE GCD(b, a % b)

Abs(x) == IF x < 0 THEN -x ELSE x

Rat(n, d) ==
    LET g == GCD(Abs(n), d)
    IN  IF n = 0 THEN <<0, 1>> ELSE <<n \div g, d \div g>>

RZero == <<0, 1>>
RAdd(a, b) == Rat(a[1] * b[2] + b[1] * a[2], a[2] * b[2])
RSub(a, b) == Rat(a[1] * b[2] - b[1] * a[2], a[2] * b[2])
RMul(a, b) == Rat(a[1] * b[1], a[2] * b[2])
RDivInt(a, k) == Rat(a[1], a[2] * k)
RLe(a, b) == a[1] * b[2] <= b[1] * a[2]
RLt(a, b) == a[1] * b[2] < b[1] * a[2]
RGe(a, b) == RLe(b, a)

\* Python's None and the float NaN, and a float, as values of one shape
None == [k |-> "None", v |-> RZero]
NaN == [k |-> "NaN", v |-> RZero]
Num(r) == [k |-> "num", v |-> r]

----------------------------------------------------------------------------
(* Sequences *)

\* The sequence [i \in 1..n |-> e] with its elements evaluated once (TLC keeps
\* a function constructor unevaluated and recomputes e at each application).
Tuple(f) == f \o <<>>

RECURSIVE SeqSum(_)
SeqSum(s) == IF s = <<>> THEN 0 ELSE Head(s) + SeqSum(Tail(s))

RECURSIVE RSeqSum(_)
RSeqSum(s) == IF s = <<>> THEN RZero ELSE RAdd(Head(s), RSeqSum(Tail(s)))

\* A stable sort: x goes before the first element that is strictly after it.
StableSort(s, Before(_, _)) ==
    LET Insert(t, x) ==
            LET later == {i \in 1..Len(t) : Before(x, t[i])}
                pos == IF later = {} THEN Len(t) + 1
                       ELSE CHOOSE i \in later : \A j \in later : i <= j
            IN  SubSeq(t, 1, pos - 1) \o <<x>> \o SubSeq(t, pos, Len(t))
        F[i \in 0..Len(s)] == IF i = 0 THEN <<>> ELSE Insert(F[i - 1], s[i])
    IN  F[Len(s)]

Range(s) == {s[i] : i \in 1..Len(s)}

----------------------------------------------------------------------------
(* Program constants *)

DEFAULT_CONFIG ==
    [min_inad |-> 6,
     min_pax |-> 5000,
     min_density |-> <<1, 10>>,
     high_priority_multiplier |-> <<3, 2>>,
     high_priority_min_inad |-> 10,
     threshold_method |-> "median",
     trimmed_percent |-> <<1, 10>>,
     systemic_semesters |-> 2,
     pax_completeness_months |-> 4]

\* the default of run_full_analysis's min_inad parameter
DefaultMinInadArg == 6

priority_order(p) ==
    CASE p = "HIGH_PRIORITY" -> 0
      [] p = "WATCH_LIST" -> 1
      [] p = "UNRELIABLE" -> 2
      [] p = "CLEAR" -> 3
      [] p = "NO_DATA" -> 4

----------------------------------------------------------------------------
(* The tables the loaders produce *)

\* (airline, last stop) keys in the order groupby sorts them
RouteSeq ==
    << <<"LX", "DXB">>, <<"LX", "IST">>, <<"TK", "IST">>, <<"TK", "JFK">>,
       <<"TK", "LHR">> >>
AirlineSeq == <<"LX", "TK">>

KeysOf(n) == {RouteSeq[i] : i \in 1..n}

\* inad_df: the number of loaded case rows per (key, Included)
InadDf(keys, f) == [r \in keys \X BOOLEAN |-> IF r[2] THEN f[r[1]][1] ELSE f[r[1]][2]]
KeysOfDf(df) == {r[1] : r \in DOMAIN df}
DfLen(df) ==
    LET ks == SelectSeq(RouteSeq, LAMBDA k : k \in KeysOfDf(df))
    IN  SeqSum(Tuple([i \in 1..Len(ks) |-> df[<<ks[i], TRUE>>] + df[<<ks[i], FALSE>>]]))

\* pax_lookup.get(k, 0)
PaxGet(pax_lookup, k) == IF k \in DOMAIN pax_lookup THEN pax_lookup[k] ELSE 0

----------------------------------------------------------------------------
(* calculate_step1, calculate_step2 *)

\* sort_values('INAD_Count', ascending=False): ties keep the groupby order
SortByCountDesc(rows) == StableSort(rows, LAMBDA x, y : x.INAD_Count > y.INAD_Count)

\* calculate_step1 without the filter on Included: every record is counted
calculate_step1_AllRecords(inad_df, min_inad) ==
    LET keys == SelectSeq(RouteSeq, LAMBDA k : k \in KeysOfDf(inad_df))
        size(a) == SeqSum(Tuple([i \in 1..Len(keys) |->
                       IF keys[i][1] = a
                       THEN inad_df[<<keys[i], TRUE>>] + inad_df[<<keys[i], FALSE>>]
                       ELSE 0]))
        groups == SelectSeq(AirlineSeq, LAMBDA a : size(a) > 0)
        airline_counts == Tuple([i \in 1..Len(groups) |->
            [Airline |-> groups[i],
             INAD_Count |-> size(groups[i]),
             PassesThreshold |-> size(groups[i]) >= min_inad]])
    IN  SortByCountDesc(airline_counts)

calculate_step1(inad_df, min_inad) ==
    LET keys == SelectSeq(RouteSeq, LAMBDA k : k \in KeysOfDf(inad_df))
        size(a) == SeqSum(Tuple([i \in 1..Len(keys) |->
                       IF keys[i][1] = a THEN inad_df[<<keys[i], TRUE>>] ELSE 0]))
        groups == SelectSeq(AirlineSeq, LAMBDA a : size(a) > 0)
        airline_counts == Tuple([i \in 1..Len(groups) |->
            [Airline |-> groups[i],
             INAD_Count |-> size(groups[i]),
             PassesThreshold |-> size(groups[i]) >= min_inad]])
    IN  SortByCountDesc(airline_counts)

\* calculate_step2 without the restriction to the airlines passing Step1
calculate_step2_AllAirlines(inad_df, step1_df, min_inad) ==
    LET groups == SelectSeq(RouteSeq, LAMBDA k :
                      /\ k \in KeysOfDf(inad_df)
                      /\ inad_df[<<k, TRUE>>] > 0)
        route_counts == Tuple([i \in 1..Len(groups) |->
            [Airline |-> groups[i][1],
             LastStop |-> groups[i][2],
             INAD_Count |-> inad_df[<<groups[i], TRUE>>],
             PassesThreshold |-> inad_df[<<groups[i], TRUE>>] >= min_inad]])
    IN  SortByCountDesc(route_counts)

calculate_step2(inad_df, step1_df, min_inad) ==
    LET passing_airlines ==
            {step1_df[i].Airline : i \in {j \in 1..Len(step1_df) : step1_df[j].PassesThreshold}}
        groups == SelectSeq(RouteSeq, LAMBDA k :
                      /\ k \in KeysOfDf(inad_df)
                      /\ k[1] \in passing_airlines
                      /\ inad_df[<<k, TRUE>>] > 0)
        route_counts == Tuple([i \in 1..Len(groups) |->
            [Airline |-> groups[i][1],
             LastStop |-> groups[i][2],
             INAD_Count |-> inad_df[<<groups[i], TRUE>>],
             PassesThreshold |-> inad_df[<<groups[i], TRUE>>] >= min_inad]])
    IN  SortByCountDesc(route_counts)

----------------------------------------------------------------------------
(* calculate_robust_threshold *)

SortAsc(ds) == StableSort(ds, LAMBDA x, y : RLt(x, y))

Median(ds) ==
    LET s == SortAsc(ds)
        n == Len(s)
    IN  IF n % 2 = 1 THEN s[(n + 1) \div 2]
        ELSE RDivInt(RAdd(s[n \div 2], s[n \div 2 + 1]), 2)

Mean(ds) == RDivInt(RSeqSum(ds), Len(ds))

\* scipy.stats.trim_mean: int(proportiontocut * n) values are cut off each end.
\* Every trimmed_percent of the model is below 1/2, so the slice is never empty.
TrimMean(ds, trim_percent) ==
    LET s == SortAsc(ds)
        n == Len(s)
        lowercut == (trim_percent[1] * n) \div trim_percent[2]
        uppercut == n - lowercut
    IN  Mean(SubSeq(s, lowercut + 1, uppercut))

\* the threshold were the method ignored and the mean always taken
calculate_robust_threshold_AlwaysMean(densities, method, trim_percent) ==
    LET valid == SelectSeq(densities, LAMBDA d : d.k = "num")
        valid_densities == Tuple([i \in 1..Len(valid) |-> valid[i].v])
    IN  IF Len(valid_densities) = 0 THEN RZero ELSE Mean(valid_densities)

calculate_robust_threshold(densities, method, trim_percent) ==
    LET valid == SelectSeq(densities, LAMBDA d : d.k = "num")
        valid_densities == Tuple([i \in 1..Len(valid) |-> valid[i].v])
    IN  IF Len(valid_densities) = 0 THEN RZero
        ELSE IF method = "median" THEN Median(valid_densities)
        ELSE IF method = "trimmed_mean" THEN TrimMean(valid_densities, trim_percent)
        ELSE Mean(valid_densities)

----------------------------------------------------------------------------
(* calculate_confidence_score *)

RMin(a, b) == IF RLe(a, b) THEN a ELSE b

\* int(x) of a float that is not negative
IntTrunc(r) == r[1] \div r[2]

\* the score without the test of pax_count against min_pax
calculate_confidence_score_NoGate(inad_count, pax_count, min_pax) ==
    LET inad_score == RMin(<<100, 1>>, RMul(Rat(inad_count, 20), <<100, 1>>))
        pax_score == RMin(<<100, 1>>, RMul(Rat(pax_count, 100000), <<100, 1>>))
    IN  IntTrunc(RAdd(RMul(Rat(6, 10), inad_score), RMul(Rat(4, 10), pax_score)))

calculate_confidence_score(inad_count, pax_count, min_pax) ==
    IF pax_count < min_pax THEN 0
    ELSE LET inad_score == RMin(<<100, 1>>, RMul(Rat(inad_count, 20), <<100, 1>>))
             pax_score == RMin(<<100, 1>>, RMul(Rat(pax_count, 100000), <<100, 1>>))
         IN  IntTrunc(RAdd(RMul(Rat(6, 10), inad_score), RMul(Rat(4, 10), pax_score)))

----------------------------------------------------------------------------
(* calculate_step3_enhanced *)

\* `config` of a function whose caller passed cfg (<<>> is None)
OrDefault(cfg) == IF cfg = <<>> THEN DEFAULT_CONFIG ELSE cfg[1]

\* p: the PAX of the route plus that of its partner airlines on the same stop
ResolvePax(pax_lookup, partner_map, air, lst) ==
    LET partners == IF <<air, lst>> \in DOMAIN partner_map
                    THEN partner_map[<<air, lst>>] ELSE <<>>
    IN  PaxGet(pax_lookup, <<air, lst>>)
        + SeqSum(Tuple([i \in 1..Len(partners) |-> PaxGet(pax_lookup, <<partners[i], lst>>)]))

\* inad / p with p = 0, p being the int 0 that pax_lookup.get gives a route
\* without passenger rows: Python raises ZeroDivisionError
ZeroDivisionError == [k |-> "ZeroDivisionError", v |-> RZero]

\* the density branches, in the order the code tests them
Density(inad, p, min_pax) ==
    IF p >= min_pax
    THEN IF p = 0 THEN ZeroDivisionError ELSE Num(Rat(inad * 1000, p))
    ELSE IF p > 0 THEN Num(Rat(inad * 1000, p))
    ELSE None

\* the loop over the passing routes ends in ZeroDivisionError (passenger
\* numbers are never negative, so only a min_pax <= 0 lets p = 0 reach it)
Step3Raises(step2_df, pax_lookup, partner_map, cfg) ==
    /\ cfg.min_pax <= 0
    /\ \E i \in 1..Len(step2_df) :
        /\ step2_df[i].PassesThreshold
        /\ Density(step2_df[i].INAD_Count,
                   ResolvePax(pax_lookup, partner_map, step2_df[i].Airline,
                              step2_df[i].LastStop),
                   cfg.min_pax) = ZeroDivisionError

\* pd.DataFrame(rows): a column holding floats and None becomes float64 and
\* its None values NaN; a column holding only None stays an object column.
DataFrameOf(rows) ==
    LET floats == \E i \in 1..Len(rows) : rows[i].Density_permille.k = "num"
    IN  Tuple([i \in 1..Len(rows) |->
            IF floats /\ rows[i].Density_permille.k = "None"
            THEN [rows[i] EXCEPT !.Density_permille = NaN]
            ELSE rows[i]])

\* x >= y on a density cell: false for None and NaN
DensityGe(d, r) == d.k = "num" /\ RGe(d.v, r)

\* classify_priority with WATCH_LIST kept for densities of at least min_density
classify_priority_WatchAboveMinDensity(row, threshold, cfg) ==
    IF row.Density_permille = None THEN "NO_DATA"
    ELSE IF ~row.Reliable THEN "UNRELIABLE"
    ELSE LET above_threshold == DensityGe(row.Density_permille, threshold)
             above_min_density == DensityGe(row.Density_permille, cfg.min_density)
             high_multiplier == DensityGe(row.Density_permille,
                                    RMul(threshold, cfg.high_priority_multiplier))
             high_inad == row.INAD >= cfg.high_priority_min_inad
         IN  IF above_threshold /\ above_min_density /\ high_multiplier /\ high_inad
             THEN "HIGH_PRIORITY"
             ELSE IF above_threshold /\ above_min_density THEN "WATCH_LIST"
             ELSE "CLEAR"

\* classify_priority without its test on Reliable
classify_priority_NoReliableGate(row, threshold, cfg) ==
    IF row.Density_permille = None THEN "NO_DATA"
    ELSE LET above_threshold == DensityGe(row.Density_permille, threshold)
             above_min_density == DensityGe(row.Density_permille, cfg.min_density)
             high_multiplier == DensityGe(row.Density_permille,
                                    RMul(threshold, cfg.high_priority_multiplier))
             high_inad == row.INAD >= cfg.high_priority_min_inad
         IN  IF above_threshold /\ above_min_density /\ high_multiplier /\ high_inad
             THEN "HIGH_PRIORITY"
             ELSE IF above_threshold THEN "WATCH_LIST"
             ELSE "CLEAR"

\* classify_priority without its high_inad condition
classify_priority_NoMinInad(row, threshold, cfg) ==
    IF row.Density_permille = None THEN "NO_DATA"
    ELSE IF ~row.Reliable THEN "UNRELIABLE"
    ELSE LET above_threshold == DensityGe(row.Density_permille, threshold)
             above_min_density == DensityGe(row.Density_permille, cfg.min_density)
             high_multiplier == DensityGe(row.Density_permille,
                                    RMul(threshold, cfg.high_priority_multiplier))
         IN  IF above_threshold /\ above_min_density /\ high_multiplier
             THEN "HIGH_PRIORITY"
             ELSE IF above_threshold THEN "WATCH_LIST"
             ELSE "CLEAR"

classify_priority(row, threshold, cfg) ==
    IF row.Density_permille = None THEN "NO_DATA"
    ELSE IF ~row.Reliable THEN "UNRELIABLE"
    ELSE LET above_threshold == DensityGe(row.Density_permille, threshold)
             above_min_density == DensityGe(row.Density_permille, cfg.min_density)
             high_multiplier == DensityGe(row.Density_permille,
                                    RMul(threshold, cfg.high_priority_multiplier))
             high_inad == row.INAD >= cfg.high_priority_min_inad
         IN  IF above_threshold /\ above_min_density /\ high_multiplier /\ high_inad
             THEN "HIGH_PRIORITY"
             ELSE IF above_threshold THEN "WATCH_LIST"
             ELSE "CLEAR"

\* reliable_densities taking the density of every row, reliable or not
reliable_densities_AllRows(rows) ==
    Tuple([i \in 1..Len(rows) |-> rows[i].Density_permille])

\* the densities the population threshold is computed from
reliable_densities(rows) ==
    LET rel == SelectSeq(rows, LAMBDA r : r.Reliable)
    IN  Tuple([i \in 1..Len(rel) |-> rel[i].Density_permille])

\* the sort on the density alone, the tiers ignored
SortStep3_DensityOnly(rows) ==
    StableSort(rows, LAMBDA x, y :
        /\ x.Density_permille.k = "num"
        /\ \/ y.Density_permille.k # "num"
           \/ RLt(y.Density_permille.v, x.Density_permille.v))

\* sort_values(['PriorityOrder', 'Density_permille'], ascending=[True, False]):
\* a stable sort, cells without a number last within their tier
SortStep3(rows) ==
    StableSort(rows, LAMBDA x, y :
        \/ priority_order(x.Priority) < priority_order(y.Priority)
        \/ /\ priority_order(x.Priority) = priority_order(y.Priority)
           /\ x.Density_permille.k = "num"
           /\ \/ y.Density_permille.k # "num"
              \/ RLt(y.Density_permille.v, x.Density_permille.v))

calculate_step3_enhanced(step2_df, pax_lookup, inad_df, partner_map, cfg_arg) ==
    LET cfg == OrDefault(cfg_arg)
        passing_routes == SelectSeq(step2_df, LAMBDA r : r.PassesThreshold)
        rows == Tuple([i \in 1..Len(passing_routes) |->
            LET air == passing_routes[i].Airline
                lst == passing_routes[i].LastStop
                inad == passing_routes[i].INAD_Count
                p == ResolvePax(pax_lookup, partner_map, air, lst)
            IN  [Airline |-> air,
                 LastStop |-> lst,
                 INAD |-> inad,
                 PAX |-> p,
                 Density_permille |-> Density(inad, p, cfg.min_pax),
                 Reliable |-> p >= cfg.min_pax,
                 Confidence |-> calculate_confidence_score(inad, p, cfg.min_pax)]])
        frame == DataFrameOf(rows)
        threshold == calculate_robust_threshold(reliable_densities(frame),
                         cfg.threshold_method, cfg.trimmed_percent)
        classified == Tuple([i \in 1..Len(frame) |->
            [Airline |-> frame[i].Airline,
             LastStop |-> frame[i].LastStop,
             INAD |-> frame[i].INAD,
             PAX |-> frame[i].PAX,
             Density_permille |-> frame[i].Density_permille,
             Reliable |-> frame[i].Reliable,
             Confidence |-> frame[i].Confidence,
             Priority |-> classify_priority(frame[i], threshold, cfg),
             AboveThreshold |-> DensityGe(frame[i].Density_permille, threshold),
             Threshold |-> threshold,
             ThresholdMethod |-> cfg.threshold_method]])
    IN  SortStep3(classified)

----------------------------------------------------------------------------
(* run_full_analysis *)

\* pd.DataFrame([]) has no columns: inad_df['Included'] raises KeyError
LoadedNothing(inad_df) == DfLen(inad_df) = 0

\* a run that also leaves its threshold method in the caller's dict
ConfigAfterRun_Method(cfg_arg, min_inad) ==
    IF cfg_arg = <<>> THEN <<>>
    ELSE <<[cfg_arg[1] EXCEPT !.min_inad = min_inad, !.threshold_method = "mean"]>>

\* config['min_inad'] = min_inad, on the caller's dict unless it passed None
ConfigAfterRun(cfg_arg, min_inad) ==
    IF cfg_arg = <<>> THEN <<>>
    ELSE <<[cfg_arg[1] EXCEPT !.min_inad = min_inad]>>

\* The value returned, or raised = TRUE where the run ends in an exception;
\* caller_config is the caller's dict after the call.
run_full_analysis(inad_df, pax_lookup, min_inad, partner_map, cfg_arg) ==
    LET cfg == [OrDefault(cfg_arg) EXCEPT !.min_inad = min_inad]
        empty == LoadedNothing(inad_df)
        step1 == IF empty THEN <<>> ELSE calculate_step1(inad_df, min_inad)
        step2 == IF empty THEN <<>> ELSE calculate_step2(inad_df, step1, min_inad)
        raised == empty \/ Step3Raises(step2, pax_lookup, partner_map, cfg)
        step3 == IF raised THEN <<>>
                 ELSE calculate_step3_enhanced(step2, pax_lookup, inad_df,
                                               partner_map, <<cfg>>)
    IN  [raised |-> raised,
         step1 |-> IF raised THEN <<>> ELSE step1,
         step2 |-> IF raised THEN <<>> ELSE step2,
         step3 |-> step3,
         inad_raw |-> inad_df,
         pax_lookup |-> pax_lookup,
         threshold |-> IF Len(step3) > 0 THEN <<step3[1].Threshold>> ELSE <<>>,
         min_inad |-> min_inad,
         config |-> cfg,
         caller_config |-> ConfigAfterRun(cfg_arg, min_inad)]

----------------------------------------------------------------------------
(* detect_systemic_cases *)

RECURSIVE Flatten(_)
Flatten(ss) == IF ss = <<>> THEN <<>> ELSE Head(ss) \o Flatten(Tail(ss))

\* the elements of s without repetitions, in the order of their first occurrence
RECURSIVE Distinct(_)
Distinct(s) ==
    IF s = <<>> THEN <<>>
    ELSE LET init == Distinct(SubSeq(s, 1, Len(s) - 1))
             last == s[Len(s)]
         IN  IF last \in Range(init) THEN init ELSE Append(init, last)

Max(a, b) == IF a >= b THEN a ELSE b

\* the appends without the filter on Priority: an entry for every row
HistoryAppends_AllRows(historical_results) ==
    Flatten(Tuple([n \in 1..Len(historical_results) |->
        LET step3 == historical_results[n][2]
        IN  Tuple([j \in 1..Len(step3) |->
                [route_key |-> <<step3[j].Airline, step3[j].LastStop>>,
                 entry |-> [Semester |-> historical_results[n][1],
                            Priority |-> step3[j].Priority,
                            Density |-> step3[j].Density_permille,
                            INAD |-> step3[j].INAD,
                            PAX |-> step3[j].PAX]]])]))

\* one (route_key, entry) pair per flagged row, in the order of the appends
HistoryAppends(historical_results) ==
    Flatten(Tuple([n \in 1..Len(historical_results) |->
        LET semester == historical_results[n][1]
            step3 == historical_results[n][2]
            flagged == SelectSeq(step3, LAMBDA r :
                           r.Priority \in {"HIGH_PRIORITY", "WATCH_LIST"})
        IN  Tuple([j \in 1..Len(flagged) |->
                [route_key |-> <<flagged[j].Airline, flagged[j].LastStop>>,
                 entry |-> [Semester |-> semester,
                            Priority |-> flagged[j].Priority,
                            Density |-> flagged[j].Density_permille,
                            INAD |-> flagged[j].INAD,
                            PAX |-> flagged[j].PAX]]])]))

\* route_history[route_key]
RouteHistory(appends, route_key) ==
    LET mine == SelectSeq(appends, LAMBDA a : a.route_key = route_key)
    IN  Tuple([j \in 1..Len(mine) |-> mine[j].entry])

\* the loop over history with consecutive_count set to 1 at every entry
MaxConsecutiveOf_Reset(history) == IF Len(history) = 0 THEN 0 ELSE 1

\* the loop over history: consecutive_count is 1 at the first entry and one
\* more at every later entry; max_consecutive is the largest value it had
MaxConsecutiveOf(history) ==
    LET consecutive_count[i \in 0..Len(history)] ==
            IF i = 0 THEN 0
            ELSE IF i = 1 THEN 1
            ELSE consecutive_count[i - 1] + 1
        max_consecutive[i \in 0..Len(history)] ==
            IF i = 0 THEN 0
            ELSE Max(max_consecutive[i - 1], consecutive_count[i])
    IN  max_consecutive[Len(history)]

\* is_systemic with = for >=
IsSystemicOf_Exactly(max_consecutive, required_consecutive) ==
    max_consecutive = required_consecutive

\* is_systemic with > for >=
IsSystemicOf_Strict(max_consecutive, required_consecutive) ==
    max_consecutive > required_consecutive

\* is_systemic
IsSystemicOf(max_consecutive, required_consecutive) ==
    max_consecutive >= required_consecutive

\* the trend with <= for < in the comparison of the last density with the first
TrendOf_OrEqual(history) ==
    IF Len(history) >= 2
    THEN LET with == SelectSeq(history, LAMBDA h : h.Density # None)
             densities == Tuple([j \in 1..Len(with) |-> with[j].Density.v])
             first == densities[1]
             last == densities[Len(densities)]
         IN  IF Len(densities) >= 2
             THEN << IF RLe(last, first) THEN "IMPROVING" ELSE "WORSENING",
                     IF RLt(RZero, first)
                     THEN RMul(RSub(last, first), <<100 * first[2], first[1]>>)
                     ELSE RZero >>
             ELSE <<"UNKNOWN", RZero>>
    ELSE <<"NEW", RZero>>

\* <<Trend, TrendPercent>>
TrendOf(history) ==
    IF Len(history) >= 2
    THEN LET with == SelectSeq(history, LAMBDA h : h.Density # None)
             densities == Tuple([j \in 1..Len(with) |-> with[j].Density.v])
             first == densities[1]
             last == densities[Len(densities)]
         IN  IF Len(densities) >= 2
             THEN << IF RLt(last, first) THEN "IMPROVING" ELSE "WORSENING",
                     IF RLt(RZero, first)
                     THEN RMul(RSub(last, first), <<100 * first[2], first[1]>>)
                     ELSE RZero >>
             ELSE <<"UNKNOWN", RZero>>
    ELSE <<"NEW", RZero>>

\* sort_values(['IsSystemic', 'TotalAppearances', 'LatestDensity'], all
\* descending): a stable sort
SortSystemic(rows) ==
    StableSort(rows, LAMBDA x, y :
        \/ x.IsSystemic /\ ~y.IsSystemic
        \/ /\ x.IsSystemic = y.IsSystemic
           /\ \/ x.TotalAppearances > y.TotalAppearances
              \/ /\ x.TotalAppearances = y.TotalAppearances
                 /\ x.LatestDensity.k = "num"
                 /\ \/ y.LatestDensity.k # "num"
                    \/ RLt(y.LatestDensity.v, x.LatestDensity.v))

detect_systemic_cases(historical_results, cfg_arg) ==
    LET cfg == OrDefault(cfg_arg)
        required_consecutive == cfg.systemic_semesters
        appends == HistoryAppends(historical_results)
        route_keys == Distinct(Tuple([j \in 1..Len(appends) |-> appends[j].route_key]))
        systemic_cases == Tuple([n \in 1..Len(route_keys) |->
            LET history == RouteHistory(appends, route_keys[n])
                max_consecutive == MaxConsecutiveOf(history)
                trend == TrendOf(history)
            IN  [Airline |-> route_keys[n][1],
                 LastStop |-> route_keys[n][2],
                 TotalAppearances |-> Len(history),
                 MaxConsecutive |-> max_consecutive,
                 IsSystemic |-> IsSystemicOf(max_consecutive, required_consecutive),
                 Trend |-> trend[1],
                 TrendPercent |-> trend[2],
                 History |-> history,
                 LatestPriority |-> history[Len(history)].Priority,
                 LatestDensity |-> history[Len(history)].Density,
                 LatestINAD |-> history[Len(history)].INAD]])
    IN  SortSystemic(systemic_cases)

----------------------------------------------------------------------------
(* run_multi_semester_analysis *)

\* (year, semester) periods in chronological order, and f"{year} H{sem}"
SemSeq == << <<2023, 1>>, <<2023, 2>>, <<2024, 1>>, <<2024, 2>>, <<2025, 1>> >>
SemLabels == <<"2023 H1", "2023 H2", "2024 H1", "2024 H2", "2025 H1">>
\* the label made of the year alone
SemesterLabel_YearOnly(sem) ==
    SemLabels[CHOOSE i \in 1..Len(SemSeq) : SemSeq[i] = <<sem[1], 1>>]

SemesterLabel(sem) == SemLabels[CHOOSE i \in 1..Len(SemSeq) : SemSeq[i] = sem]

\* the loop taking the periods in the order of the caller's list
SortedSemesters_AsListed(semesters) == semesters

\* sorted(semesters): tuples compare by year, then by semester
SortedSemesters(semesters) ==
    StableSort(semesters, LAMBDA x, y : x[1] < y[1] \/ (x[1] = y[1] /\ x[2] < y[2]))

CountRows(table, Test(_)) == Len(SelectSeq(table, Test))

\* results['pax_raw']['PAX'].sum()
TotalPax(pax_lookup) ==
    LET ks == SelectSeq(RouteSeq, LAMBDA k : k \in DOMAIN pax_lookup)
    IN  SeqSum(Tuple([i \in 1..Len(ks) |-> pax_lookup[ks[i]]]))

TotalIncluded(inad_df) ==
    LET ks == SelectSeq(RouteSeq, LAMBDA k : k \in KeysOfDf(inad_df))
    IN  SeqSum(Tuple([i \in 1..Len(ks) |-> inad_df[<<ks[i], TRUE>>]]))

\* the row appended to semester_results for one analysed period
SemesterSummary(sem, results) ==
    LET total_inad == TotalIncluded(results.inad_raw)
        total_pax == TotalPax(results.pax_lookup)
    IN  [Year |-> sem[1],
         Semester |-> sem[2],
         Label |-> SemesterLabel(sem),
         Total_INAD |-> total_inad,
         Total_PAX |-> total_pax,
         Step1_Airlines |-> CountRows(results.step1, LAMBDA r : r.PassesThreshold),
         Step2_Routes |-> CountRows(results.step2, LAMBDA r : r.PassesThreshold),
         High_Priority |-> CountRows(results.step3, LAMBDA r : r.Priority = "HIGH_PRIORITY"),
         Watch_List |-> CountRows(results.step3, LAMBDA r : r.Priority = "WATCH_LIST"),
         Threshold |-> IF results.threshold = <<>> THEN RZero ELSE results.threshold[1],
         INAD_Rate |-> IF total_pax > 0 THEN Rat(total_inad * 1000000, total_pax)
                       ELSE RZero]

\* the dict run_multi_semester_analysis works on: the caller's, or a copy of
\* DEFAULT_CONFIG (whose min_inad the runs overwrite with the same value)
WorkingConfig(cfg_arg) == IF cfg_arg = <<>> THEN <<DEFAULT_CONFIG>> ELSE cfg_arg

\* one period's single-period analysis, as the loop calls it
AnalysePeriod(inad_df, pax_lookup, cfg_arg) ==
    run_full_analysis(inad_df, pax_lookup, DefaultMinInadArg, [k \in {} |-> <<>>],
                      WorkingConfig(cfg_arg))

\* the except clause letting the period's exception leave the loop
AfterPeriod_Propagates(results) == IF results.raised THEN "raised" ELSE "loop"

\* where control is after the try statement of one period: `except Exception`
\* catches whatever the period raised, and `continue` goes on with the loop
AfterPeriod(results) == "loop"

\* try: ... semester_results.append(...) / except Exception: continue
SummariesAfter(summaries, sem, results) ==
    IF results.raised THEN summaries
    ELSE Append(summaries, SemesterSummary(sem, results))

\* try: ... historical_step3.append(...) / except Exception: continue
HistoryAfter(history, sem, results) ==
    IF results.raised THEN history
    ELSE Append(history, <<SemesterLabel(sem), results.step3>>)

----------------------------------------------------------------------------
(* The single-period specification: one call of run_full_analysis *)

Keys == KeysOf(NumRoutes)

\* case rows of one key in the window: <<included, excluded>>
IncExc == {<<0, 0>>, <<3, 4>>, <<6, 0>>, <<12, 0>>}
\* passengers of one key in the window
PaxVals == {0, 4000, 60000}

\* threshold_method with the trimmed_percent it is given (read by trimmed_mean only)
MethodArgs ==
    {<<"median", <<1, 10>>>>, <<"mean", <<1, 10>>>>,
     <<"trimmed_mean", <<1, 10>>>>, <<"trimmed_mean", <<2, 5>>>>}
MinDensities == {<<1, 10>>, <<3, 20>>}
MinInadArgs == {3, 6}

\* the configurations a caller passes: None, or a dict
ConfigArgs ==
    {<<>>, <<[DEFAULT_CONFIG EXCEPT !.min_pax = 0]>>} \cup
    {<<[DEFAULT_CONFIG EXCEPT !.threshold_method = m[1], !.trimmed_percent = m[2],
                              !.min_density = d]>> :
        m \in MethodArgs, d \in MinDensities}

\* load_partner_map: no file, or one line LX;IST;TK
PartnerMaps == {[k \in {} |-> <<>>], [k \in {<<"LX", "IST">>} |-> <<"TK">>]}

Init ==
    /\ pc = "call"
    /\ config \in ConfigArgs
    /\ config0 = config
    /\ args \in [min_inad : MinInadArgs, partner_map : PartnerMaps]
    /\ result = <<>>
    /\ idx = 0
    /\ loaded = <<>>
    /\ semester_results = <<>>
    /\ historical_step3 = <<>>
    /\ systemic = <<>>
    /\ previous = <<>>

\* run_full_analysis(inad_path, bazl_path, start, end, min_inad, partner_map_path,
\* config): the loaders read some case table and some PAX table
RunFullAnalysis ==
    /\ pc = "call"
    /\ \E f \in [Keys -> IncExc], pax_lookup \in [Keys -> PaxVals] :
        LET r == run_full_analysis(InadDf(Keys, f), pax_lookup, args.min_inad,
                                   args.partner_map, config)
        IN  result' = <<r>>
    /\ config' = result'[1].caller_config
    /\ pc' = IF result'[1].raised THEN "raised" ELSE "done"
    /\ UNCHANGED <<config0, args, idx, loaded, semester_results, historical_step3,
                   systemic, previous>>

\* the same call made again: the same files and window, the same arguments
\* and the same configuration object, as the first run left it
RunAgain ==
    /\ pc = "done"
    /\ previous = <<>>
    /\ previous' = result
    /\ result' = <<run_full_analysis(result[1].inad_raw, result[1].pax_lookup,
                                     args.min_inad, args.partner_map, config)>>
    /\ config' = result'[1].caller_config
    /\ pc' = IF result'[1].raised THEN "raised" ELSE "done"
    /\ UNCHANGED <<config0, args, idx, loaded, semester_results, historical_step3,
                   systemic>>

Next == RunFullAnalysis \/ RunAgain

Spec == Init /\ [][Next]_vars

----------------------------------------------------------------------------
(* The multi-period specification: one call of run_multi_semester_analysis *)

MultiKeys == KeysOf(2)

\* included case rows of the two keys in one period's window
MultiCounts == {<<0, 0>>, <<3, 0>>, <<12, 0>>, <<12, 6>>, <<0, 6>>}

MultiInad(c) ==
    InadDf(MultiKeys, [k \in MultiKeys |-> IF k = RouteSeq[1] THEN <<c[1], 0>>
                                           ELSE <<c[2], 0>>])
MultiPaxLookup == [k \in MultiKeys |-> 60000]

\* the periods a caller may list, each at most once, in any order
SemUniverse == {SemSeq[i] : i \in 1..MaxPeriods}
SemLists ==
    {s \in UNION {[1..n -> SemUniverse] : n \in 0..MaxPeriods} :
        \A i, j \in 1..Len(s) : i # j => s[i] # s[j]}

MultiConfigArgs ==
    {<<>>} \cup {<<[DEFAULT_CONFIG EXCEPT !.min_inad = m]>> : m \in MinInadArgs}

InitMulti ==
    /\ pc = "loop"
    /\ config \in MultiConfigArgs
    /\ config0 = config
    /\ args \in [semesters : SemLists]
    /\ result = <<>>
    /\ idx = 0
    /\ loaded = <<>>
    /\ semester_results = <<>>
    /\ historical_step3 = <<>>
    /\ systemic = <<>>
    /\ previous = <<>>

\* one iteration of `for year, sem, start, end in sorted(semesters)`: the
\* loaders read the period's window of the case table
AnalyseSemester ==
    /\ pc = "loop"
    /\ idx < Len(args.semesters)
    /\ \E c \in MultiCounts :
        /\ result' = <<AnalysePeriod(MultiInad(c), MultiPaxLookup, config)>>
        /\ loaded' = Append(loaded, c)
    /\ idx' = idx + 1
    /\ semester_results' = SummariesAfter(semester_results,
                               SortedSemesters(args.semesters)[idx'], result'[1])
    /\ historical_step3' = HistoryAfter(historical_step3,
                               SortedSemesters(args.semesters)[idx'], result'[1])
    /\ config' = IF config = <<>> THEN <<>> ELSE result'[1].caller_config
    /\ pc' = AfterPeriod(result'[1])
    /\ UNCHANGED <<config0, args, systemic, previous>>

\* after the loop: detect_systemic_cases(historical_step3, config) and return
ReturnMulti ==
    /\ pc = "loop"
    /\ idx = Len(args.semesters)
    /\ systemic' = detect_systemic_cases(historical_step3, WorkingConfig(config))
    /\ pc' = "returned"
    /\ UNCHANGED <<config, config0, args, result, idx, loaded, semester_results,
                   historical_step3, previous>>

NextMulti == AnalyseSemester \/ ReturnMulti

SpecMulti == InitMulti /\ [][NextMulti]_vars

----------------------------------------------------------------------------
(* The detector specification: one call of detect_systemic_cases *)

SysKeys == KeysOf(2)

\* what a period's Step3 table holds for one route: no row, or a row
SysCells ==
    {[Priority |-> "ABSENT", INAD |-> 0, PAX |-> 0],
     [Priority |-> "CLEAR", INAD |-> 6, PAX |-> 120000],
     [Priority |-> "WATCH_LIST", INAD |-> 6, PAX |-> 30000],
     [Priority |-> "HIGH_PRIORITY", INAD |-> 12, PAX |-> 40000]}

\* the same for the second route: rows that are not flagged for want of
\* passengers, and a flagged row of a table whose density column holds 0.0
SysCellsSecond ==
    {[Priority |-> "ABSENT", INAD |-> 0, PAX |-> 0],
     [Priority |-> "UNRELIABLE", INAD |-> 6, PAX |-> 4000],
     [Priority |-> "NO_DATA", INAD |-> 6, PAX |-> 0],
     [Priority |-> "WATCH_LIST", INAD |-> 0, PAX |-> 30000]}

SysCellsOf(k) == IF k = RouteSeq[1] THEN SysCells ELSE SysCellsSecond

\* the rows of one period: a cell for every route
SysPeriods ==
    {cells \in [SysKeys -> SysCells \cup SysCellsSecond] :
        \A k \in SysKeys : cells[k] \in SysCellsOf(k)}

\* a Step3 table with the rows of `cells`, in Step3's row order
SysTable(cells) ==
    LET ks == SelectSeq(RouteSeq, LAMBDA k :
                  k \in DOMAIN cells /\ cells[k].Priority # "ABSENT")
    IN  SortStep3(DataFrameOf(Tuple([i \in 1..Len(ks) |->
            [Airline |-> ks[i][1],
             LastStop |-> ks[i][2],
             INAD |-> cells[ks[i]].INAD,
             PAX |-> cells[ks[i]].PAX,
             Density_permille |->
                 Density(cells[ks[i]].INAD, cells[ks[i]].PAX, DEFAULT_CONFIG.min_pax),
             Reliable |-> cells[ks[i]].PAX >= DEFAULT_CONFIG.min_pax,
             Priority |-> cells[ks[i]].Priority]])))

\* the chronological (label, Step3) list made of the periods' cells
SysHistory(periods) ==
    Tuple([n \in 1..Len(periods) |-> <<SemLabels[n], SysTable(periods[n])>>])

SysConfigArgs ==
    {<<>>} \cup {<<[DEFAULT_CONFIG EXCEPT !.systemic_semesters = n]>> : n \in {2, 3}}

InitSys ==
    /\ pc = "call"
    /\ config \in SysConfigArgs
    /\ config0 = config
    /\ args \in [periods : UNION {[1..n -> SysPeriods] : n \in 0..MaxPeriods}]
    /\ result = <<>>
    /\ idx = 0
    /\ loaded = <<>>
    /\ semester_results = <<>>
    /\ historical_step3 = SysHistory(args.periods)
    /\ systemic = <<>>
    /\ previous = <<>>

DetectSystemicCases ==
    /\ pc = "call"
    /\ systemic' = detect_systemic_cases(historical_step3, config)
    /\ pc' = "returned"
    /\ UNCHANGED <<config, config0, args, result, idx, loaded, semester_results,
                   historical_step3, previous>>

NextSys == DetectSystemicCases

SpecSys == InitSys /\ [][NextSys]_vars

----------------------------------------------------------------------------
(* load_inad_data and load_bazl_data *)

\* what a worksheet cell of Jahr or Monat holds: nothing, a text int() rejects,
\* a number, or a text spelling the number n
CellNone == [t |-> "none", n |-> 0]
CellText == [t |-> "text", n |-> 0]
CellInt(n) == [t |-> "int", n |-> n]
CellNumStr(n) == [t |-> "numstr", n |-> n]

\* int(cell): <<n>>, or <<>> for ValueError / TypeError
IntOf(cell) == IF cell.t \in {"int", "numstr"} THEN <<cell.n>> ELSE <<>>

\* dates are <<year, month, day>>
DateLt(a, b) ==
    \/ a[1] < b[1]
    \/ a[1] = b[1] /\ (a[2] < b[2] \/ (a[2] = b[2] /\ a[3] < b[3]))
DateLe(a, b) == a = b \/ DateLt(a, b)

\* datetime(yr, mon, 1) raises ValueError outside these ranges
ValidYearMonth(yr, mon) == yr \in 1..9999 /\ mon \in 1..12

EXCLUDE_CODES == {"B1n", "B2n", "C4n", "C5n", "C8", "D1n", "D2n", "E", "F1n", "G", "H", "I"}

REFUSAL_CATEGORIES ==
    << <<"Documentation", {"A", "A1", "A2", "A3", "A4", "A5"}>>,
       <<"Fraud", {"B", "B1", "B1e", "B2", "B2e"}>>,
       <<"Visa", {"C1", "C2", "C3", "C4", "C4e", "C5", "C5e", "C6", "C7"}>>,
       <<"Security", {"D1", "D2", "D2e", "F", "F1", "F1e", "F2"}>> >>

\* code.rstrip('en') on the codes the worksheet of the model holds
RStripEn(code) == IF code = "B1n" THEN "B1" ELSE code

CategoryOf(code) ==
    LET hits == SelectSeq(REFUSAL_CATEGORIES,
                          LAMBDA c : code \in c[2] \/ RStripEn(code) \in c[2])
    IN  IF hits = <<>> THEN "Other" ELSE hits[1][1]

\* the loop body without the except clause around int(): a text cell raises
RowOutcome_Uncaught(row, start_date, end_date) ==
    IF row.Jahr.t = "none" \/ row.Monat.t = "none" THEN "skip"
    ELSE IF IntOf(row.Jahr) = <<>> \/ IntOf(row.Monat) = <<>> THEN "raise"
    ELSE LET yr == IntOf(row.Jahr)[1]
             mon == IntOf(row.Monat)[1]
             dt == <<yr, mon, 1>>
         IN  IF ~ValidYearMonth(yr, mon) THEN "raise"
             ELSE IF DateLt(dt, start_date) \/ DateLt(end_date, dt) THEN "skip"
             ELSE "record"

\* what the loop body does with one row: "skip" (continue), "record", or
\* "raise" (datetime's ValueError, raised after the try statement)
RowOutcome(row, start_date, end_date) ==
    IF row.Jahr.t = "none" \/ row.Monat.t = "none" THEN "skip"
    ELSE IF IntOf(row.Jahr) = <<>> \/ IntOf(row.Monat) = <<>> THEN "skip"
    ELSE LET yr == IntOf(row.Jahr)[1]
             mon == IntOf(row.Monat)[1]
             dt == <<yr, mon, 1>>
         IN  IF ~ValidYearMonth(yr, mon) THEN "raise"
             ELSE IF DateLt(dt, start_date) \/ DateLt(end_date, dt) THEN "skip"
             ELSE "record"

\* the dict appended to records for a row
RecordOf(row) ==
    LET yr == IntOf(row.Jahr)[1]
        mon == IntOf(row.Monat)[1]
    IN  [Airline |-> row.Fluggesellschaft,
         LastStop |-> row.Abflugort,
         Year |-> yr,
         Month |-> mon,
         Date |-> <<yr, mon, 1>>,
         RefusalCode |-> IF row.Code # "" THEN row.Code ELSE "Unknown",
         Included |-> row.Code # "" /\ row.Code \notin EXCLUDE_CODES,
         Category |-> CategoryOf(row.Code)]

\* [raised, records]: the rows in worksheet order
load_inad_data(rows, start_date, end_date) ==
    LET outcome == Tuple([i \in 1..Len(rows) |-> RowOutcome(rows[i], start_date, end_date)])
        kept == SelectSeq(Tuple([i \in 1..Len(rows) |-> i]), LAMBDA i : outcome[i] = "record")
        raised == \E i \in 1..Len(rows) : outcome[i] = "raise"
    IN  [raised |-> raised,
         records |-> IF raised THEN <<>>
                     ELSE Tuple([j \in 1..Len(kept) |-> RecordOf(rows[kept[j]])])]

\* df with Date = datetime(Jahr, Monat, 1), filtered to the window, for a
\* sheet whose Monat cells are month numbers
load_bazl_data(rows, start_date, end_date) ==
    LET dated == Tuple([i \in 1..Len(rows) |->
                     [Airline |-> rows[i].Airline,
                      Airport |-> rows[i].Airport,
                      PAX |-> rows[i].PAX,
                      Date |-> <<rows[i].Jahr, rows[i].Monat, 1>>,
                      Year |-> rows[i].Jahr,
                      Month |-> rows[i].Monat]])
    IN  SelectSeq(dated, LAMBDA r : DateLe(start_date, r.Date) /\ DateLe(r.Date, end_date))

----------------------------------------------------------------------------
(* The loader specification: one call of each loader on a window *)

JahrCells == {CellNone, CellText, CellInt(2024)}
MonatCells == {CellNone, CellText, CellInt(1), CellNumStr(7), CellInt(13)}
CodeCells == {"A1", "B1n", ""}

SheetRows ==
    [Jahr : JahrCells, Monat : MonatCells, Code : CodeCells,
     Fluggesellschaft : {"LX"}, Abflugort : {"IST"}]

\* the passenger sheet: one row for each of three months
BazlSheet ==
    << [Airline |-> "LX", Airport |-> "IST", PAX |-> 10000, Jahr |-> 2024, Monat |-> 1],
       [Airline |-> "LX", Airport |-> "IST", PAX |-> 12000, Jahr |-> 2024, Monat |-> 6],
       [Airline |-> "LX", Airport |-> "IST", PAX |-> 14000, Jahr |-> 2024, Monat |-> 7] >>

\* the windows a caller passes: a first semester ending on its last day, the
\* same ending on the first day of the next month, and a second semester
Windows ==
    {<< <<2024, 1, 1>>, <<2024, 6, 30>> >>,
     << <<2024, 1, 1>>, <<2024, 7, 1>> >>,
     << <<2024, 7, 1>>, <<2024, 12, 31>> >>}

InitLoad ==
    /\ pc = "call"
    /\ config = <<>>
    /\ config0 = <<>>
    /\ args \in [rows : UNION {[1..n -> SheetRows] : n \in 0..MaxRows},
                 window : Windows]
    /\ result = <<>>
    /\ idx = 0
    /\ loaded = <<>>
    /\ semester_results = <<>>
    /\ historical_step3 = <<>>
    /\ systemic = <<>>
    /\ previous = <<>>

\* load_bazl_data(bazl_path, start, end); load_inad_data(inad_path, start, end)
LoadData ==
    /\ pc = "call"
    /\ result' = <<[inad |-> load_inad_data(args.rows, args.window[1], args.window[2]),
                    pax_raw |-> load_bazl_data(BazlSheet, args.window[1], args.window[2])]>>
    /\ pc' = IF result'[1].inad.raised THEN "raised" ELSE "returned"
    /\ UNCHANGED <<config, config0, args, idx, loaded, semester_results,
                   historical_step3, systemic, previous>>

NextLoad == LoadData

SpecLoad == InitLoad /\ [][NextLoad]_vars

----------------------------------------------------------------------------
(* The confidence specification: one call of calculate_confidence_score *)

CaseCounts == 0..MaxCases
PaxCounts == {0, 1000, 4999, 5000, 5001, 12345, 50000, 99999, 100000, 250000}
MinPaxArgs == {1000, 5000, 20000}

InitConf ==
    /\ pc = "call"
    /\ config = <<>>
    /\ config0 = <<>>
    /\ args \in [inad_count : CaseCounts, pax_count : PaxCounts, min_pax : MinPaxArgs]
    /\ result = <<>>
    /\ idx = 0
    /\ loaded = <<>>
    /\ semester_results = <<>>
    /\ historical_step3 = <<>>
    /\ systemic = <<>>
    /\ previous = <<>>

CalculateConfidenceScore ==
    /\ pc = "call"
    /\ result' = <<calculate_confidence_score(args.inad_count, args.pax_count,
                                              args.min_pax)>>
    /\ pc' = "returned"
    /\ UNCHANGED <<config, config0, args, idx, loaded, semester_results,
                   historical_step3, systemic, previous>>

NextConf == CalculateConfidenceScore

SpecConf == InitConf /\ [][NextConf]_vars

----------------------------------------------------------------------------
(* Claims about one single-period run (Spec) *)

Done == pc = "done"
Step1Rows == IF Done THEN Range(result[1].step1) ELSE {}
Step2Rows == IF Done THEN Range(result[1].step2) ELSE {}
Step3Rows == IF Done THEN Range(result[1].step3) ELSE {}
RouteOf(row) == <<row.Airline, row.LastStop>>

\* the four conditions of the decision tree, read off a row's stored fields
C1_Above(row) == RGe(row.Density_permille.v, row.Threshold)
C1_AllFour(row, cfg) ==
    /\ C1_Above(row)
    /\ RGe(row.Density_permille.v, cfg.min_density)
    /\ RGe(row.Density_permille.v, RMul(row.Threshold, cfg.high_priority_multiplier))
    /\ row.INAD >= cfg.high_priority_min_inad

\* the route of the boundary scenario: density 0.20, PAX 20000, reliable
C1_Scenario(case_count) ==
    [Airline |-> "LX", LastStop |-> "IST", INAD |-> case_count, PAX |-> 20000,
     Density_permille |-> Num(<<1, 5>>), Reliable |-> TRUE]

\* C1: every Step3 row with a non-null density that is reliable (PAX >= min_pax)
\* is HIGH_PRIORITY iff density >= threshold, density >= min_density, density >=
\* threshold * high_priority_multiplier and case count >= high_priority_min_inad
\* all hold, WATCH_LIST iff density >= threshold but not all four hold, and CLEAR
\* otherwise; classifying the stored fields again gives the stored tier; with
\* threshold 0.10 a route of density 0.20 is HIGH_PRIORITY with 12 cases and
\* WATCH_LIST with 9.
C1_DecisionTree ==
    /\ \A row \in Step3Rows :
        (row.Density_permille.k = "num" /\ row.Reliable) =>
            /\ row.PAX >= result[1].config.min_pax
            /\ (row.Priority = "HIGH_PRIORITY") <=> C1_AllFour(row, result[1].config)
            /\ (row.Priority = "WATCH_LIST") <=>
                   (C1_Above(row) /\ ~C1_AllFour(row, result[1].config))
            /\ (row.Priority = "CLEAR") <=> ~C1_Above(row)
            /\ row.Priority = classify_priority(row, row.Threshold, result[1].config)
    /\ classify_priority(C1_Scenario(12), <<1, 10>>, DEFAULT_CONFIG) = "HIGH_PRIORITY"
    /\ classify_priority(C1_Scenario(9), <<1, 10>>, DEFAULT_CONFIG) = "WATCH_LIST"

\* a table holding a HIGH_PRIORITY, a WATCH_LIST and a CLEAR row
C1_Witness ==
    \E h, w, c \in Step3Rows :
        /\ h.Priority = "HIGH_PRIORITY"
        /\ w.Priority = "WATCH_LIST"
        /\ c.Priority = "CLEAR"

\* C2: a route whose resolved PAX is zero is NO_DATA, and no route with PAX > 0
\* is NO_DATA, whatever else the table holds.
C2_NoDataIffZeroPax ==
    \A row \in Step3Rows : (row.PAX = 0) <=> (row.Priority = "NO_DATA")

\* C8: a run leaves the configuration mapping of its caller as it was.
C8_ConfigUnchanged ==
    pc \in {"done", "raised"} => config = config0

\* the k-th smallest of the rationals ds, by counting
C9_Kth(ds, k) ==
    CHOOSE x \in Range(ds) :
        /\ Cardinality({i \in 1..Len(ds) : RLt(ds[i], x)}) < k
        /\ k <= Cardinality({i \in 1..Len(ds) : RLe(ds[i], x)})

\* the mean of the k-th smallest values of ds for k in lo..hi
C9_MeanOfRanks(ds, lo, hi) ==
    RDivInt(RSeqSum(Tuple([k \in 1..(hi - lo + 1) |-> C9_Kth(ds, lo + k - 1)])),
            hi - lo + 1)

\* the statistic `method` of the rationals ds (ds not empty)
C9_Statistic(ds, method, trim) ==
    LET n == Len(ds)
        cut == (trim[1] * n) \div trim[2]
    IN  CASE method = "median" ->
                 C9_MeanOfRanks(ds, (n + 1) \div 2, (n + 2) \div 2)
          [] method = "trimmed_mean" -> C9_MeanOfRanks(ds, cut + 1, n - cut)
          [] method = "mean" -> C9_MeanOfRanks(ds, 1, n)

\* the densities of the reliable rows of the returned Step3 table
C9_ReliableDensities ==
    LET rel == SelectSeq(result[1].step3, LAMBDA r : r.Reliable)
    IN  Tuple([i \in 1..Len(rel) |-> rel[i].Density_permille.v])

\* C9: the threshold stamped on every row of a Step3 table is the configured
\* statistic (median, trimmed mean or mean) of the densities of exactly the rows
\* with Reliable = true (0 when there is none), and every row carries the
\* configured ThresholdMethod.
C9_ThresholdFromReliable ==
    \A row \in Step3Rows :
        /\ row.ThresholdMethod = result[1].config.threshold_method
        /\ row.Threshold =
               IF C9_ReliableDensities = <<>> THEN RZero
               ELSE C9_Statistic(C9_ReliableDensities,
                                 result[1].config.threshold_method,
                                 result[1].config.trimmed_percent)

\* a table of two reliable rows of different densities and an unreliable row
\* whose density is computed and lies above the threshold
C9_Witness ==
    /\ Done
    /\ Cardinality({row.Density_permille : row \in {r \in Step3Rows : r.Reliable}}) = 2
    /\ \E u \in Step3Rows :
           /\ ~u.Reliable
           /\ u.Density_permille.k = "num"
           /\ RLt(u.Threshold, u.Density_permille.v)

\* C10: every airline of a Step2 row passes Step1, and Step3 holds one row for
\* each Step2 row that passes and no other row.
C10_MonotonicFiltering ==
    Done =>
        /\ \A row \in Step2Rows :
               \E a \in Step1Rows : a.Airline = row.Airline /\ a.PassesThreshold
        /\ {RouteOf(row) : row \in Step3Rows}
               = {RouteOf(row) : row \in {r \in Step2Rows : r.PassesThreshold}}
        /\ Len(result[1].step3)
               = Cardinality({r \in Step2Rows : r.PassesThreshold})

\* an airline failing Step1, a Step2 row that fails and one that passes
C10_Witness ==
    /\ \E a \in Step1Rows : ~a.PassesThreshold
    /\ \E r \in Step2Rows : ~r.PassesThreshold
    /\ Step3Rows # {}

----------------------------------------------------------------------------
(* Claims about one call of the detector (SpecSys) *)

Returned == pc = "returned"
SystemicRows == IF Returned THEN Range(systemic) ELSE {}
RequiredConsecutive == OrDefault(config).systemic_semesters

\* the priority of `route` in the n-th period given to the detector
PriorityIn(route, n) ==
    LET rows == {r \in Range(historical_step3[n][2]) : RouteOf(r) = route}
    IN  IF rows = {} THEN "ABSENT" ELSE (CHOOSE r \in rows : TRUE).Priority

\* the periods, by position, in which `route` was flagged
FlaggedPeriods(route) ==
    {n \in 1..Len(historical_step3) :
        PriorityIn(route, n) \in {"HIGH_PRIORITY", "WATCH_LIST"}}

\* `route` was flagged in k periods that follow one another without a gap
HasAdjacentRun(route, k) ==
    \E first \in 1..Len(historical_step3) :
        \A n \in first..(first + k - 1) : n \in FlaggedPeriods(route)

\* C3: a route is reported systemic only if it was flagged in at least
\* systemic_semesters periods adjacent in the sequence given to the detector.
C3_SystemicOnlyIfAdjacent ==
    \A row \in SystemicRows :
        row.IsSystemic => HasAdjacentRun(RouteOf(row), RequiredConsecutive)

C5_SystemicIffEnough ==
    /\ \A row \in SystemicRows :
           row.IsSystemic <=> (row.MaxConsecutive >= RequiredConsecutive)
    /\ (Returned /\ RequiredConsecutive = 2) =>
           \A route \in SysKeys :
               /\ (\E n \in 1..Len(historical_step3) :
                      /\ FlaggedPeriods(route) = {n, n + 1}
                      /\ PriorityIn(route, n) = "WATCH_LIST"
                      /\ PriorityIn(route, n + 1) = "WATCH_LIST")
                  => \E row \in SystemicRows : RouteOf(row) = route /\ row.IsSystemic
               /\ Cardinality(FlaggedPeriods(route)) = 1
                  => \E row \in SystemicRows : RouteOf(row) = route /\ ~row.IsSystemic

\* systemic_semesters = 2: one route flagged WATCH_LIST in periods 2 and 3 only,
\* the other flagged in one period only
C5_Witness ==
    /\ Returned
    /\ RequiredConsecutive = 2
    /\ \E a, b \in SystemicRows :
        /\ FlaggedPeriods(RouteOf(a)) = {2, 3}
        /\ PriorityIn(RouteOf(a), 2) = "WATCH_LIST"
        /\ PriorityIn(RouteOf(a), 3) = "WATCH_LIST"
        /\ a.IsSystemic
        /\ Cardinality(FlaggedPeriods(RouteOf(b))) = 1
        /\ ~b.IsSystemic

\* the labels of the periods in which `route` was flagged, in input order
C11_FlaggedLabels(route) ==
    LET ns == SelectSeq(Tuple([n \in 1..Len(historical_step3) |-> n]),
                        LAMBDA n : n \in FlaggedPeriods(route))
    IN  Tuple([j \in 1..Len(ns) |-> historical_step3[ns[j]][1]])

\* C11: the history of a route holds one entry for exactly the periods in which
\* its priority was HIGH_PRIORITY or WATCH_LIST, in the order of the input
\* sequence; a route flagged in no period has no history.
C11_HistoryIsFlaggedPeriods ==
    Returned =>
        \A route \in SysKeys :
            LET rows == {r \in SystemicRows : RouteOf(r) = route}
            IN  IF FlaggedPeriods(route) = {} THEN rows = {}
                ELSE \E row \in rows :
                    /\ rows = {row}
                    /\ Tuple([j \in 1..Len(row.History) |-> row.History[j].Semester])
                           = C11_FlaggedLabels(route)
                    /\ \A j \in 1..Len(row.History) :
                           row.History[j].Priority \in {"HIGH_PRIORITY", "WATCH_LIST"}

\* one route flagged, CLEAR, flagged and the other UNRELIABLE, flagged, NO_DATA
C11_Witness ==
    /\ Returned
    /\ Len(historical_step3) = 3
    /\ \E a, b \in SysKeys :
        /\ FlaggedPeriods(a) = {1, 3} /\ PriorityIn(a, 2) = "CLEAR"
        /\ FlaggedPeriods(b) = {2}
        /\ PriorityIn(b, 1) = "UNRELIABLE" /\ PriorityIn(b, 3) = "NO_DATA"
        /\ \E row \in SystemicRows : RouteOf(row) = a /\ Len(row.History) = 2

\* the densities of a reported route's appearances that hold a number
C13_Densities(row) ==
    LET with == SelectSeq(row.History, LAMBDA h : h.Density.k = "num")
    IN  Tuple([j \in 1..Len(with) |-> with[j].Density.v])

C13_WitnessWorsening ==
    \E a, b \in SystemicRows :
        /\ C13_Densities(a) = <<Rat(2, 10), Rat(3, 10)>>
        /\ a.TrendPercent = Rat(50, 1)
        /\ b.Trend = "NEW"

----------------------------------------------------------------------------
(* Claims about one multi-period run (SpecMulti) *)

\* the periods in the order the loop takes them, and what was read for each
LoopOrder == SortedSemesters(args.semesters)
PeriodRun(i) == AnalysePeriod(MultiInad(loaded[i]), MultiPaxLookup, config0)
FailedPeriods == {i \in 1..Len(loaded) : PeriodRun(i).raised}

\* the summary rows and the history entries of a run that was asked only for
\* the periods at the given positions, none of which fails
C6_SummaryOf(survivors, runs) ==
    Tuple([k \in 1..Len(survivors) |->
        SemesterSummary(LoopOrder[survivors[k]], runs[survivors[k]])])
C6_HistoryOf(survivors, runs) ==
    Tuple([k \in 1..Len(survivors) |->
        <<SemesterLabel(LoopOrder[survivors[k]]), runs[survivors[k]].step3>>])

\* C6: a period whose analysis raises does not end the run; it has no row in
\* the summary and no entry in the history given to the detector, and summary,
\* history and systemic table are those of a run asked for the other periods only.
C6_FailingPeriodSkipped ==
    LET runs == Tuple([i \in 1..Len(loaded) |-> PeriodRun(i)])
        failed == {i \in 1..Len(loaded) : runs[i].raised}
        survivors == SelectSeq(Tuple([i \in 1..Len(loaded) |-> i]),
                               LAMBDA i : i \notin failed)
        history == C6_HistoryOf(survivors, runs)
    IN  /\ pc # "raised"
        /\ \A i \in failed :
            /\ \A n \in 1..Len(semester_results) :
                   semester_results[n].Label # SemesterLabel(LoopOrder[i])
            /\ \A n \in 1..Len(historical_step3) :
                   historical_step3[n][1] # SemesterLabel(LoopOrder[i])
        /\ Returned =>
            /\ semester_results = C6_SummaryOf(survivors, runs)
            /\ historical_step3 = history
            /\ systemic = detect_systemic_cases(history, WorkingConfig(config0))

\* a returned run of three periods whose second period failed, with a route
\* flagged in the first and in the third
C6_Witness ==
    /\ Returned
    /\ Len(loaded) = 3
    /\ FailedPeriods = {2}
    /\ Len(semester_results) = 2
    /\ \E row \in Range(systemic) : row.TotalAppearances = 2

\* the position of a period label in chronological order
C12_Chrono(label) == CHOOSE i \in 1..Len(SemLabels) : SemLabels[i] = label

\* the caller's list is most recent first, as get_available_semesters returns it
C12_MostRecentFirst ==
    \A i, j \in 1..Len(args.semesters) :
        i < j => \/ args.semesters[i][1] > args.semesters[j][1]
                 \/ /\ args.semesters[i][1] = args.semesters[j][1]
                    /\ args.semesters[i][2] > args.semesters[j][2]

\* C12: whatever the order of the semester list, the (label, Step3) pairs
\* collected for the systemic detector are in strictly ascending chronological
\* order of (year, semester).
C12_HistoryChronological ==
    \A i, j \in 1..Len(historical_step3) :
        i < j => C12_Chrono(historical_step3[i][1]) < C12_Chrono(historical_step3[j][1])

\* a returned run over three periods listed most recent first, all analysed
C12_Witness ==
    /\ Returned
    /\ Len(args.semesters) = 3
    /\ C12_MostRecentFirst
    /\ Len(historical_step3) = 3

\* C7: in every analysed period Step1 and Step2 apply the min_inad of the
\* configuration the caller passed: PassesThreshold is count >= config.min_inad.
C7_MinInadOfConfig ==
    (result # <<>> /\ ~result[1].raised) =>
        \A row \in Range(result[1].step1) \cup Range(result[1].step2) :
            row.PassesThreshold <=> (row.INAD_Count >= OrDefault(config0).min_inad)

----------------------------------------------------------------------------
(* Further claims about one single-period run (Spec) *)

\* C14: empty inputs are not errors: a window holding no case record makes
\* Step1, Step2 and Step3 complete with empty tables, and so do the following
\* steps when no airline or no route passes the threshold.
C14_EmptyInputsNotErrors ==
    result # <<>> =>
        /\ ~result[1].raised
        /\ DfLen(result[1].inad_raw) = 0 =>
               result[1].step1 = <<>> /\ result[1].step2 = <<>> /\ result[1].step3 = <<>>
        /\ (\A row \in Range(result[1].step1) : ~row.PassesThreshold) =>
               result[1].step2 = <<>> /\ result[1].step3 = <<>>
        /\ (\A row \in Range(result[1].step2) : ~row.PassesThreshold) =>
               result[1].step3 = <<>>

\* C15: the density computation never divides by zero: whatever min_pax is
\* configured, a run over a non-empty case table completes, a Step3 row with
\* PAX 0 has a null density, a row with PAX > 0 has INAD / PAX * 1000 (10 cases
\* on 20000 passengers: exactly 0.5), and Reliable is PAX >= min_pax.
C15_DensityNeverDividesByZero ==
    (result # <<>> /\ ~LoadedNothing(result[1].inad_raw)) =>
        /\ ~result[1].raised
        /\ \A row \in Range(result[1].step3) :
            /\ row.PAX = 0 => row.Density_permille.k \in {"None", "NaN"}
            /\ row.PAX > 0 =>
                   /\ row.Density_permille.k = "num"
                   /\ RMul(row.Density_permille.v, <<row.PAX, 1>>) = <<row.INAD * 1000, 1>>
            /\ (row.PAX = 20000 /\ row.INAD = 10) => row.Density_permille = Num(<<1, 2>>)
            /\ row.Reliable <=> (row.PAX >= result[1].config.min_pax)

\* the number of records of the loaded case table that are included and
\* belong to one of the routes in S
RECURSIVE C18_IncludedOn(_)
C18_IncludedOn(S) ==
    IF S = {} THEN 0
    ELSE LET k == CHOOSE x \in S : TRUE
         IN  result[1].inad_raw[<<k, TRUE>>] + C18_IncludedOn(S \ {k})

C18_IncludedOf(airline) ==
    C18_IncludedOn({k \in KeysOfDf(result[1].inad_raw) : k[1] = airline})

\* C18: Step1 has one row for each airline with at least one included record,
\* its count the number of that airline's included records, PassesThreshold
\* being count >= min_inad, and the rows in non-increasing order of count.
C18_Step1Counts ==
    Done =>
        LET step1 == result[1].step1
        IN  /\ \A a \in Range(AirlineSeq) :
                   Cardinality({i \in 1..Len(step1) : step1[i].Airline = a})
                       = (IF C18_IncludedOf(a) > 0 THEN 1 ELSE 0)
            /\ \A i \in 1..Len(step1) :
                   /\ step1[i].INAD_Count = C18_IncludedOf(step1[i].Airline)
                   /\ step1[i].PassesThreshold <=>
                          (step1[i].INAD_Count >= result[1].min_inad)
            /\ \A i, j \in 1..Len(step1) :
                   i < j => step1[i].INAD_Count >= step1[j].INAD_Count

\* two airlines with different counts, the first passing and the second not,
\* the second having records that are not included
C18_Witness ==
    /\ Done
    /\ Len(result[1].step1) = 2
    /\ result[1].step1[1].PassesThreshold
    /\ ~result[1].step1[2].PassesThreshold
    /\ \E k \in KeysOfDf(result[1].inad_raw) :
        /\ k[1] = result[1].step1[2].Airline
        /\ result[1].inad_raw[<<k, FALSE>>] > 0

----------------------------------------------------------------------------
(* Claims about the loaders (SpecLoad) *)

Loaded == pc = "returned" /\ result # <<>>

\* the rows of the worksheet whose year and month int() accepts
C16_Dated(i) == IntOf(args.rows[i].Jahr) # <<>> /\ IntOf(args.rows[i].Monat) # <<>>
C16_DateOf(i) == <<IntOf(args.rows[i].Jahr)[1], IntOf(args.rows[i].Monat)[1], 1>>
C16_InHalfOpenWindow(date) ==
    DateLe(args.window[1], date) /\ DateLt(date, args.window[2])

\* C16: the loaders keep exactly the records dated in [start, end): dated on or
\* after start and strictly before end; a record dated end is not loaded.
C16_HalfOpenWindow ==
    Loaded =>
        /\ \A rec \in Range(result[1].inad.records) : C16_InHalfOpenWindow(rec.Date)
        /\ Len(result[1].inad.records) =
               Cardinality({i \in 1..Len(args.rows) :
                               C16_Dated(i) /\ C16_InHalfOpenWindow(C16_DateOf(i))})
        /\ \A rec \in Range(result[1].pax_raw) : C16_InHalfOpenWindow(rec.Date)

\* a row whose year or month is missing or is not a number
C17_Malformed(row) ==
    row.Jahr.t \in {"none", "text"} \/ row.Monat.t \in {"none", "text"}

\* the worksheet without its malformed rows
C17_OtherRows == SelectSeq(args.rows, LAMBDA row : ~C17_Malformed(row))

\* C17: a row whose year or month is missing or non-numeric is skipped without
\* raising: it yields no record, and the loader's outcome is the one it has on
\* the worksheet without that row.
C17_MalformedRowSkipped ==
    result # <<>> =>
        /\ result[1].inad = load_inad_data(C17_OtherRows, args.window[1], args.window[2])
        /\ Len(result[1].inad.records) <= Len(C17_OtherRows)
        /\ (\A i \in 1..Len(args.rows) : C17_Malformed(args.rows[i])) =>
               ~result[1].inad.raised /\ result[1].inad.records = <<>>

\* a worksheet with a row holding a text for the month before a row that is
\* loaded
C17_Witness ==
    /\ Loaded
    /\ Len(args.rows) = 2
    /\ args.rows[1].Monat.t = "text" /\ args.rows[1].Jahr.t = "int"
    /\ ~C17_Malformed(args.rows[2])
    /\ Len(result[1].inad.records) = 1

----------------------------------------------------------------------------
(* Claims about calculate_confidence_score (SpecConf) *)

C20_Min(a, b) == IF a <= b THEN a ELSE b

\* floor(0.6 * min(100, c / 20 * 100) + 0.4 * min(100, p / 100000 * 100)), in
\* ten-thousandths
C20_Floor(c, p) == (6000 * C20_Min(100, 5 * c) + 4 * C20_Min(100000, p)) \div 10000

\* C20: the confidence score is an integer in 0..100; it is 0 whenever PAX is
\* below min_pax, whatever the case count, and otherwise
\* floor(0.6 * min(100, cases / 20 * 100) + 0.4 * min(100, pax / 100000 * 100)).
C20_ConfidenceScore ==
    Returned =>
        /\ result[1] \in 0..100
        /\ args.pax_count < args.min_pax => result[1] = 0
        /\ args.pax_count >= args.min_pax =>
               result[1] = C20_Floor(args.inad_count, args.pax_count)

\* 7 cases on 5000 passengers with min_pax 5000: 0.6 * 35 + 0.4 * 5 = 23
C20_Witness ==
    /\ Returned
    /\ args.inad_count = 7 /\ args.pax_count = 5000 /\ args.min_pax = 5000
    /\ result[1] = 23

----------------------------------------------------------------------------
(* get_available_semesters *)

\* year_months: (int(yr), int(mon)) of the rows whose cells int() accepts
YearMonths(rows) ==
    {<<IntOf(rows[i].Jahr)[1], IntOf(rows[i].Monat)[1]>> :
        i \in {n \in 1..Len(rows) :
                  /\ rows[n].Jahr.t # "none" /\ rows[n].Monat.t # "none"
                  /\ IntOf(rows[n].Jahr) # <<>> /\ IntOf(rows[n].Monat) # <<>>}}

\* the tuple added for one (yr, mon); the dates are <<year, month, day>>
SemesterOf(yr, mon) ==
    IF 1 <= mon /\ mon <= 6
    THEN <<yr, 1, <<yr, 1, 1>>, <<yr, 6, 30>>>>
    ELSE <<yr, 2, <<yr, 7, 1>>, <<yr, 12, 31>>>>

\* sorted(semesters, reverse=True): tuples compare by year, then by semester
RECURSIVE SortedDescending(_)
SortedDescending(S) ==
    IF S = {} THEN <<>>
    ELSE LET top == CHOOSE x \in S : \A y \in S :
                        x[1] > y[1] \/ (x[1] = y[1] /\ x[2] >= y[2])
         IN  <<top>> \o SortedDescending(S \ {top})

get_available_semesters(rows) ==
    SortedDescending({SemesterOf(ym[1], ym[2]) : ym \in YearMonths(rows)})

----------------------------------------------------------------------------
(* The semester specification: one call of get_available_semesters *)

SemJahrCells == {CellNone, CellText, CellInt(2023), CellNumStr(2024)}
SemMonatCells ==
    {CellNone, CellText, CellInt(0), CellInt(3), CellInt(6), CellInt(7),
     CellNumStr(9), CellInt(13)}
SemSheetRows == [Jahr : SemJahrCells, Monat : SemMonatCells]

InitSem ==
    /\ pc = "call"
    /\ config = <<>>
    /\ config0 = <<>>
    /\ args \in [rows : UNION {[1..n -> SemSheetRows] : n \in 0..MaxRows}]
    /\ result = <<>>
    /\ idx = 0
    /\ loaded = <<>>
    /\ semester_results = <<>>
    /\ historical_step3 = <<>>
    /\ systemic = <<>>
    /\ previous = <<>>

GetAvailableSemesters ==
    /\ pc = "call"
    /\ result' = <<get_available_semesters(args.rows)>>
    /\ pc' = "returned"
    /\ UNCHANGED <<config, config0, args, idx, loaded, semester_results,
                   historical_step3, systemic, previous>>

NextSem == GetAvailableSemesters

SpecSem == InitSem /\ [][NextSem]_vars

----------------------------------------------------------------------------
(* Claims about get_available_semesters (SpecSem) *)

\* some row of the worksheet has year y and a month from lo to hi
C21_RecordIn(y, lo, hi) ==
    \E i \in 1..Len(args.rows) :
        /\ IntOf(args.rows[i].Jahr) = <<y>>
        /\ IntOf(args.rows[i].Monat) # <<>>
        /\ IntOf(args.rows[i].Monat)[1] \in lo..hi

\* C21: get_available_semesters returns the distinct semesters of the records,
\* most recent first: (y, 1, y-01-01, y-06-30) iff some record has year y and
\* a month in 1..6, (y, 2, y-07-01, y-12-31) iff some record has year y and a
\* month in 7..12.
C21_SemestersOfRecords ==
    Returned =>
        /\ \A i, j \in 1..Len(result[1]) :
               i < j => \/ result[1][i][1] > result[1][j][1]
                        \/ /\ result[1][i][1] = result[1][j][1]
                           /\ result[1][i][2] > result[1][j][2]
        /\ \A y \in {2023, 2024} :
               /\ <<y, 1, <<y, 1, 1>>, <<y, 6, 30>>>> \in Range(result[1])
                      <=> C21_RecordIn(y, 1, 6)
               /\ <<y, 2, <<y, 7, 1>>, <<y, 12, 31>>>> \in Range(result[1])
                      <=> C21_RecordIn(y, 7, 12)

----------------------------------------------------------------------------
(* The threshold specification: calculate_robust_threshold on a density list
   and then on the same list with one density removed *)

\* the density list [0.05, 0.06, 0.05, 0.07, 50.0]
OutlierDensities ==
    <<Num(Rat(5, 100)), Num(Rat(6, 100)), Num(Rat(5, 100)), Num(Rat(7, 100)),
      Num(Rat(50, 1))>>

\* the densities of a list that a mask keeps, in their order
Masked(ds, mask) ==
    LET kept == SelectSeq(Tuple([i \in 1..Len(ds) |-> i]), LAMBDA i : mask[i])
    IN  Tuple([j \in 1..Len(kept) |-> ds[kept[j]]])

ThresholdLists ==
    {Masked(OutlierDensities, mask) :
         mask \in [1..Len(OutlierDensities) -> BOOLEAN]} \ {<<>>}

Without(ds, i) == SubSeq(ds, 1, i - 1) \o SubSeq(ds, i + 1, Len(ds))

InitThr ==
    /\ pc = "call"
    /\ config = <<>>
    /\ config0 = <<>>
    /\ \E ds \in ThresholdLists, m \in MethodArgs :
           args \in [densities : {ds}, method : {m[1]},
                     trim_percent : {m[2]}, removed : 1..Len(ds)]
    /\ result = <<>>
    /\ idx = 0
    /\ loaded = <<>>
    /\ semester_results = <<>>
    /\ historical_step3 = <<>>
    /\ systemic = <<>>
    /\ previous = <<>>

CalculateRobustThreshold ==
    /\ pc = "call"
    /\ previous' = <<calculate_robust_threshold(args.densities, args.method,
                                                args.trim_percent)>>
    /\ pc' = "removed"
    /\ UNCHANGED <<config, config0, args, result, idx, loaded,
                   semester_results, historical_step3, systemic>>

CalculateThresholdWithout ==
    /\ pc = "removed"
    /\ result' = <<calculate_robust_threshold(
                       Without(args.densities, args.removed), args.method,
                       args.trim_percent)>>
    /\ pc' = "returned"
    /\ UNCHANGED <<config, config0, args, idx, loaded, semester_results,
                   historical_step3, systemic, previous>>

NextThr == CalculateRobustThreshold \/ CalculateThresholdWithout

SpecThr == InitThr /\ [][NextThr]_vars

----------------------------------------------------------------------------
(* Claims about calculate_robust_threshold (SpecThr) *)

\* the outlier 50.0 has been removed from [0.05, 0.06, 0.05, 0.07, 50.0]
C22_OutlierRemoved ==
    /\ Returned
    /\ args.densities = OutlierDensities
    /\ args.removed = Len(OutlierDensities)

\* |previous - result| < pct% of base, all exact
C22_ChangeBelow(pct, base) ==
    RLt(RMul(Rat(100, 1),
             Rat(Abs(RSub(previous[1], result[1])[1]),
                 RSub(previous[1], result[1])[2])),
        RMul(Rat(pct, 1), base))

C22_ChangeAbove(pct, base) ==
    RLt(RMul(Rat(pct, 1), base),
        RMul(Rat(100, 1),
             Rat(Abs(RSub(previous[1], result[1])[1]),
                 RSub(previous[1], result[1])[2])))

\* C22 as stated: on [0.05, 0.06, 0.05, 0.07, 50.0], removing the outlier 50.0
\* changes the median threshold by less than 5% and the mean threshold by more
\* than 300% (the change taken relative to either of the two thresholds).
C22_RobustnessFivePercent ==
    C22_OutlierRemoved =>
        /\ args.method = "median" =>
               \/ C22_ChangeBelow(5, previous[1])
               \/ C22_ChangeBelow(5, result[1])
        /\ args.method = "mean" =>
               \/ C22_ChangeAbove(300, previous[1])
               \/ C22_ChangeAbove(300, result[1])

\* C22 amended: on [0.05, 0.06, 0.05, 0.07, 50.0], removing the outlier 50.0
\* changes the median threshold by less than 10% (0.06 becomes 0.055) and the
\* mean threshold by more than 300% of the threshold without the outlier.
C22_RobustnessTenPercent ==
    C22_OutlierRemoved =>
        /\ args.method = "median" =>
               /\ C22_ChangeBelow(10, previous[1])
               /\ C22_ChangeBelow(10, result[1])
        /\ args.method = "mean" => C22_ChangeAbove(300, result[1])

C22_Witness ==
    /\ C22_OutlierRemoved
    /\ args.method = "median"
    /\ previous[1] = Rat(6, 100)
    /\ result[1] = Rat(11, 200)

----------------------------------------------------------------------------
(* check_pax_data_quality and the data-quality warning of a Step3 row *)

MaxMonths == 4

SeqMax(s) == CHOOSE x \in Range(s) : \A y \in Range(s) : x >= y
SeqMin(s) == CHOOSE x \in Range(s) : \A y \in Range(s) : x <= y

\* float('inf')
Inf == [k |-> "inf", v |-> RZero]

check_pax_data_quality(monthly_pax, airline, airport, expected_months, min_months) ==
    LET route_data == SelectSeq(monthly_pax,
                          LAMBDA r : r.Airline = airline /\ r.Airport = airport)
        months_with_data == Len(route_data)
        pax == Tuple([i \in 1..Len(route_data) |-> route_data[i].PAX])
        total_pax == SeqSum(pax)
        variance_ratio ==
            IF months_with_data > 0
            THEN IF SeqMin(pax) > 0 THEN Num(Rat(SeqMax(pax), SeqMin(pax))) ELSE Inf
            ELSE Num(RZero)
    IN  [months_with_data |-> months_with_data,
         expected_months |-> expected_months,
         is_complete |-> months_with_data >= min_months,
         total_pax |-> total_pax,
         high_variance |-> \/ variance_ratio = Inf
                           \/ /\ variance_ratio.k = "num"
                              /\ RLt(Rat(10, 1), variance_ratio.v),
         quality_warning |-> None]

\* the warning with the tests for low volume and high variance exchanged
QualityWarning_LowPaxFirst(quality, p, cfg, expected_months) ==
    IF ~quality.is_complete
    THEN <<"Incomplete PAX data", quality.months_with_data, expected_months>>
    ELSE IF p < cfg.min_pax THEN <<"Low PAX volume", cfg.min_pax>>
    ELSE IF quality.high_variance THEN <<"High variance in monthly PAX data">>
    ELSE <<>>

\* warning: <<>> is None; a formatted text is the tuple of its fixed part and
\* the numbers it prints
QualityWarning(quality, p, cfg, expected_months) ==
    IF ~quality.is_complete
    THEN <<"Incomplete PAX data", quality.months_with_data, expected_months>>
    ELSE IF quality.high_variance THEN <<"High variance in monthly PAX data">>
    ELSE IF p < cfg.min_pax THEN <<"Low PAX volume", cfg.min_pax>>
    ELSE <<>>

\* expected_months = 6  # Semester
ExpectedMonths == 6

\* the PAX, DataQuality and MonthsWithData of the row of one passing route
QualityRow(air, lst, pax_lookup, monthly_pax, partner_map, cfg) ==
    LET p == ResolvePax(pax_lookup, partner_map, air, lst)
        quality == check_pax_data_quality(monthly_pax, air, lst, ExpectedMonths,
                                          OrDefault(cfg).pax_completeness_months)
    IN  [Airline |-> air,
         LastStop |-> lst,
         PAX |-> p,
         DataQuality |-> QualityWarning(quality, p, OrDefault(cfg), ExpectedMonths),
         MonthsWithData |-> quality.months_with_data]

\* pax_lookup = df.groupby(['Airline', 'Airport'])['PAX'].sum(), from the
\* monthly sums of the same df
PaxLookupOf(monthly_pax) ==
    [k \in {<<monthly_pax[i].Airline, monthly_pax[i].Airport>> :
                i \in 1..Len(monthly_pax)} |->
        LET rows == SelectSeq(monthly_pax,
                        LAMBDA r : <<r.Airline, r.Airport>> = k)
        IN  SeqSum(Tuple([i \in 1..Len(rows) |-> rows[i].PAX]))]

----------------------------------------------------------------------------
(* The data-quality specification: the row of route LX/IST *)

MonthlyPaxVals == {0, 400, 4000, 4400}

\* monthly_pax: a row for each month of LX/IST with passenger rows, and one
\* month of the partner route TK/IST
MonthlyTables ==
    {Tuple([i \in 1..Len(v) |->
               [Airline |-> "LX", Airport |-> "IST", Year |-> 2024,
                Month |-> i, PAX |-> v[i]]])
         \o <<[Airline |-> "TK", Airport |-> "IST", Year |-> 2024,
               Month |-> 1, PAX |-> 4800]>> :
     v \in UNION {[1..n -> MonthlyPaxVals] : n \in 0..MaxMonths}}

QualityConfigArgs ==
    {<<>>, <<[DEFAULT_CONFIG EXCEPT !.pax_completeness_months = 0]>>}

InitQual ==
    /\ pc = "call"
    /\ config \in QualityConfigArgs
    /\ config0 = config
    /\ args \in [partner_map : PartnerMaps]
    /\ result = <<>>
    /\ idx = 0
    /\ \E m \in MonthlyTables :
           loaded = <<[monthly_pax |-> m, pax_lookup |-> PaxLookupOf(m)]>>
    /\ semester_results = <<>>
    /\ historical_step3 = <<>>
    /\ systemic = <<>>
    /\ previous = <<>>

Step3DataQuality ==
    /\ pc = "call"
    /\ result' = <<QualityRow("LX", "IST", loaded[1].pax_lookup,
                              loaded[1].monthly_pax, args.partner_map, config)>>
    /\ pc' = "returned"
    /\ UNCHANGED <<config, config0, args, idx, loaded, semester_results,
                   historical_step3, systemic, previous>>

NextQual == Step3DataQuality

SpecQual == InitQual /\ [][NextQual]_vars

----------------------------------------------------------------------------
(* Claims about the data-quality warning (SpecQual) *)

\* the monthly PAX of route LX/IST
C23_Monthly ==
    LET rows == SelectSeq(loaded[1].monthly_pax, LAMBDA r : r.Airline = "LX")
    IN  Tuple([i \in 1..Len(rows) |-> rows[i].PAX])

\* C23: each Step3 row carries at most one data-quality warning, chosen by
\* precedence: incomplete data if months_with_data < pax_completeness_months;
\* otherwise high variance if max monthly PAX / min monthly PAX > 10 (a zero
\* minimum counting as an infinite ratio); otherwise low PAX if PAX < min_pax;
\* otherwise no warning.
C23_WarningPrecedence ==
    Returned =>
        LET m == C23_Monthly
            cfg == OrDefault(config)
            w == result[1].DataQuality
        IN  IF Len(m) < cfg.pax_completeness_months
            THEN w = <<"Incomplete PAX data", Len(m), 6>>
            ELSE IF \E i, j \in 1..Len(m) : m[j] = 0 \/ m[i] > 10 * m[j]
            THEN w = <<"High variance in monthly PAX data">>
            ELSE IF result[1].PAX < cfg.min_pax
            THEN w = <<"Low PAX volume", cfg.min_pax>>
            ELSE w = <<>>

\* a complete route with both high variance and low volume
C23_Witness ==
    /\ Returned
    /\ Len(C23_Monthly) = 4
    /\ 0 \in Range(C23_Monthly)
    /\ result[1].PAX < OrDefault(config).min_pax
    /\ result[1].DataQuality = <<"High variance in monthly PAX data">>

----------------------------------------------------------------------------
(* Further claims about the Step3 table (Spec) *)

C24_Tiers == <<"HIGH_PRIORITY", "WATCH_LIST", "UNRELIABLE", "CLEAR", "NO_DATA">>
C24_TierOf(row) == CHOOSE n \in 1..Len(C24_Tiers) : C24_Tiers[n] = row.Priority

\* C24: the Step3 output is ordered by the tiers HIGH_PRIORITY, WATCH_LIST,
\* UNRELIABLE, CLEAR, NO_DATA: no row of a later tier precedes a row of an
\* earlier tier, and within one tier the densities are non-increasing.
C24_OrderedByTierThenDensity ==
    Done =>
        LET step3 == result[1].step3
        IN  \A i, j \in 1..Len(step3) :
                i < j =>
                    /\ C24_TierOf(step3[i]) <= C24_TierOf(step3[j])
                    /\ ( /\ step3[i].Priority = step3[j].Priority
                         /\ step3[i].Density_permille.k = "num"
                         /\ step3[j].Density_permille.k = "num" )
                       => RGe(step3[i].Density_permille.v,
                              step3[j].Density_permille.v)

\* a flagged row, then two unreliable rows, both of greater density than the
\* flagged row and the first of greater density than the second
C24_Witness ==
    /\ Done
    /\ Len(result[1].step3) = 3
    /\ result[1].step3[1].Priority \in {"HIGH_PRIORITY", "WATCH_LIST"}
    /\ result[1].step3[2].Priority = "UNRELIABLE"
    /\ result[1].step3[3].Priority = "UNRELIABLE"
    /\ RLt(result[1].step3[1].Density_permille.v,
           result[1].step3[3].Density_permille.v)
    /\ RLt(result[1].step3[3].Density_permille.v,
           result[1].step3[2].Density_permille.v)

\* C25: when no route of a period is reliable, the threshold is 0 and no route
\* is HIGH_PRIORITY or WATCH_LIST: every row is UNRELIABLE or NO_DATA.
C25_NoReliableNoFlag ==
    (Done /\ \A row \in Step3Rows : ~row.Reliable) =>
        \A row \in Step3Rows :
            /\ row.Threshold = RZero
            /\ row.Priority \in {"UNRELIABLE", "NO_DATA"}

\* two unreliable routes with a density above the zero threshold
C25_Witness ==
    /\ Done
    /\ Len(result[1].step3) >= 2
    /\ \A row \in Step3Rows :
           /\ ~row.Reliable
           /\ row.Density_permille.k = "num"
           /\ RLt(row.Threshold, row.Density_permille.v)
           /\ row.AboveThreshold

C27_Flagged(row) == row.Priority \in {"HIGH_PRIORITY", "WATCH_LIST"}

\* C27 as stated: in every Step3 row AboveThreshold is true iff the row's
\* Priority is HIGH_PRIORITY or WATCH_LIST.
C27_AboveThresholdIffFlagged ==
    \A row \in Step3Rows : row.AboveThreshold <=> C27_Flagged(row)

\* C27 amended: in every Step3 row a Priority of HIGH_PRIORITY or WATCH_LIST
\* implies that AboveThreshold is true, and in every row of a reliable route
\* AboveThreshold is true iff the Priority is HIGH_PRIORITY or WATCH_LIST.
C27_AboveThresholdIffFlaggedWhenReliable ==
    \A row \in Step3Rows :
        /\ C27_Flagged(row) => row.AboveThreshold
        /\ row.Reliable => (row.AboveThreshold <=> C27_Flagged(row))

\* a flagged row, a CLEAR row below the threshold and an unreliable row above it
C27_Witness ==
    \E f, c, u \in Step3Rows :
        /\ f.Reliable /\ C27_Flagged(f) /\ f.AboveThreshold
        /\ c.Reliable /\ c.Priority = "CLEAR" /\ ~c.AboveThreshold
        /\ ~u.Reliable /\ u.Priority = "UNRELIABLE" /\ u.AboveThreshold

----------------------------------------------------------------------------
(* Further claims about run_multi_semester_analysis (SpecMulti) *)

\* C28: a route has at most one history entry per processed period: for every
\* route of the systemic table TotalAppearances is between 1 and the number of
\* periods analysed successfully, and the labels in its History are pairwise
\* distinct.
C28_OneEntryPerPeriod ==
    Returned =>
        \A row \in Range(systemic) :
            /\ 1 <= row.TotalAppearances
            /\ row.TotalAppearances <= Len(semester_results)
            /\ \A i, j \in 1..Len(row.History) :
                   i # j => row.History[i].Semester # row.History[j].Semester

\* three analysed periods, a route flagged in two of them and another in one
C28_Witness ==
    /\ Returned
    /\ Len(semester_results) = 3
    /\ \E row \in Range(systemic) : row.TotalAppearances = 2
    /\ \E row \in Range(systemic) : row.TotalAppearances = 1

----------------------------------------------------------------------------
(* Further claims about detect_systemic_cases (SpecSys) *)

\* the routes reported IsSystemic for the first n periods of the history
C29_SystemicAfter(n) ==
    LET table == detect_systemic_cases(SubSeq(historical_step3, 1, n), config)
        flagged == SelectSeq(table, LAMBDA row : row.IsSystemic)
    IN  {RouteOf(flagged[i]) : i \in 1..Len(flagged)}

\* C29: the systemic flag is monotone in the history: a route reported
\* IsSystemic for a sequence of periods is reported IsSystemic for every
\* extension of the sequence by later periods, whatever its priority in them.
C29_SystemicMonotone ==
    Returned =>
        LET now == {RouteOf(row) : row \in {r \in Range(systemic) : r.IsSystemic}}
        IN  \A n \in 0..Len(historical_step3) : C29_SystemicAfter(n) \subseteq now

\* a route systemic after two periods and not flagged in the third
C29_Witness ==
    /\ Returned
    /\ Len(historical_step3) = 3
    /\ \E k \in C29_SystemicAfter(2) :
           \A row \in Range(historical_step3[3][2]) :
               RouteOf(row) = k => row.Priority \notin {"HIGH_PRIORITY", "WATCH_LIST"}

----------------------------------------------------------------------------
(* Further claims about load_inad_data (SpecLoad) *)

\* a row whose year and month are numbers, the month outside 1..12
C30_MonthOutOfRange(row) ==
    /\ row.Jahr.t # "none" /\ row.Monat.t # "none"
    /\ IntOf(row.Jahr) # <<>> /\ IntOf(row.Monat) # <<>>
    /\ IntOf(row.Monat)[1] \notin 1..12

\* the worksheet without the rows whose month is out of range
C30_OtherRows == SelectSeq(args.rows, LAMBDA row : ~C30_MonthOutOfRange(row))

\* C30: a row whose year and month are numeric but whose month lies outside
\* 1..12 does not abort load_inad_data: it is skipped like the other rows with a
\* malformed date, and the remaining rows are still loaded.
C30_MonthOutOfRangeSkipped ==
    result # <<>> =>
        /\ ~result[1].inad.raised
        /\ result[1].inad = load_inad_data(C30_OtherRows, args.window[1], args.window[2])

----------------------------------------------------------------------------
(* The arithmetic of Python floats. The sections above compute densities and
   thresholds as exact rationals; where a density is compared with a mean of
   densities the rounding of binary64 decides, and this section computes it. *)

(* Unbounded naturals: little-endian digit sequences in base 2^15, no leading
   zero digit; <<>> is 0 *)
BigBase == 32768

RECURSIVE BigOf(_)
BigOf(n) == IF n = 0 THEN <<>> ELSE <<n % BigBase>> \o BigOf(n \div BigBase)

RECURSIVE BigNorm(_)
BigNorm(a) ==
    IF a = <<>> THEN <<>>
    ELSE IF a[Len(a)] = 0 THEN BigNorm(SubSeq(a, 1, Len(a) - 1)) ELSE a

BigDigit(a, i) == IF i <= Len(a) THEN a[i] ELSE 0

RECURSIVE BigAddFrom(_, _, _, _)
BigAddFrom(a, b, i, carry) ==
    IF i > Len(a) /\ i > Len(b)
    THEN IF carry = 0 THEN <<>> ELSE <<carry>>
    ELSE LET x == BigDigit(a, i) + BigDigit(b, i) + carry
         IN  <<x % BigBase>> \o BigAddFrom(a, b, i + 1, x \div BigBase)

BigAdd(a, b) == BigAddFrom(a, b, 1, 0)

\* a - b for a >= b
RECURSIVE BigSubFrom(_, _, _, _)
BigSubFrom(a, b, i, borrow) ==
    IF i > Len(a) THEN <<>>
    ELSE LET x == a[i] - BigDigit(b, i) - borrow
         IN  IF x < 0 THEN <<x + BigBase>> \o BigSubFrom(a, b, i + 1, 1)
             ELSE <<x>> \o BigSubFrom(a, b, i + 1, 0)

BigSub(a, b) == BigNorm(BigSubFrom(a, b, 1, 0))

\* a < b
BigLt(a, b) ==
    \/ Len(a) < Len(b)
    \/ /\ Len(a) = Len(b)
       /\ \E i \in 1..Len(a) :
              /\ a[i] < b[i]
              /\ \A j \in (i + 1)..Len(a) : a[j] = b[j]

RECURSIVE BigMulSmallFrom(_, _, _, _)
BigMulSmallFrom(a, k, i, carry) ==
    IF i > Len(a) THEN IF carry = 0 THEN <<>> ELSE <<carry>>
    ELSE LET x == a[i] * k + carry
         IN  <<x % BigBase>> \o BigMulSmallFrom(a, k, i + 1, x \div BigBase)

\* a * k for 0 <= k < 2^15
BigMulSmall(a, k) == IF k = 0 THEN <<>> ELSE BigMulSmallFrom(a, k, 1, 0)

RECURSIVE BigMul(_, _)
BigMul(a, b) ==
    IF a = <<>> \/ b = <<>> THEN <<>>
    ELSE BigAdd(BigMulSmall(a, Head(b)),
                LET rest == BigMul(a, Tail(b))
                IN  IF rest = <<>> THEN <<>> ELSE <<0>> \o rest)

RECURSIVE BitLenSmall(_)
BitLenSmall(n) == IF n = 0 THEN 0 ELSE 1 + BitLenSmall(n \div 2)

BigBitLen(a) == IF a = <<>> THEN 0 ELSE 15 * (Len(a) - 1) + BitLenSmall(a[Len(a)])

\* bit i (from 0) of a
BigBit(a, i) == (BigDigit(a, i \div 15 + 1) \div (2 ^ (i % 15))) % 2

RECURSIVE BigZeros(_)
BigZeros(n) == IF n = 0 THEN <<>> ELSE <<0>> \o BigZeros(n - 1)

\* a * 2^s
BigShl(a, s) ==
    IF a = <<>> THEN <<>>
    ELSE BigZeros(s \div 15) \o BigMulSmall(a, 2 ^ (s % 15))

\* a \div 2^s for 0 <= s < 15
BigShr(a, s) ==
    BigNorm(Tuple([i \in 1..Len(a) |->
        a[i] \div (2 ^ s) + (BigDigit(a, i + 1) % (2 ^ s)) * (2 ^ (15 - s))]))

\* the quotient q doubled plus one bit, and the remainder r2 reduced below d
BigDivBit(d, q, r2) ==
    IF BigLt(r2, d) THEN <<BigAddFrom(q, q, 1, 0), r2>>
    ELSE <<BigAddFrom(q, q, 1, 1), BigSub(r2, d)>>

\* one step of binary long division: bit i of a is brought down
BigDivStep(a, d, i, qr) ==
    BigDivBit(d, qr[1], BigAddFrom(qr[2], qr[2], 1, BigBit(a, i)))

\* the steps for bits hi down to lo, the range halved to keep the nesting low
RECURSIVE BigDivSteps(_, _, _, _, _)
BigDivSteps(a, d, hi, lo, qr) ==
    IF hi < lo THEN qr
    ELSE IF hi = lo THEN BigDivStep(a, d, hi, qr)
    ELSE LET mid == (hi + lo + 1) \div 2
             upper == BigDivSteps(a, d, hi, mid, qr)
         IN  IF Len(upper[1]) + Len(upper[2]) < 0 THEN upper
             ELSE BigDivSteps(a, d, mid - 1, lo, upper)

\* <<a div d, a mod d>>
BigDivMod(a, d) == BigDivSteps(a, d, BigBitLen(a) - 1, 0, <<<<>>, <<>>>>)

(* IEEE 754 binary64, zero and the positive normal numbers: m * 2^e with
   2^52 <= m < 2^53, every operation rounded to nearest, ties to even *)
FZero == [m |-> <<>>, e |-> 0]
BigOne == <<1>>

\* <<q, r>> with n * 2^t = q * d + r
BigScaledDivMod(n, d, t) ==
    BigDivMod(IF t >= 0 THEN BigShl(n, t) ELSE n,
              IF t >= 0 THEN d ELSE BigShl(d, -t))

\* m * 2^e with m <= 2^53 brought back to 53 bits
FPack(m, e) ==
    IF BigBitLen(m) = 54 THEN [m |-> BigShr(m, 1), e |-> e + 1]
    ELSE [m |-> m, e |-> e]

\* q * 2^e rounded to 53 bits, for q of 54 or 55 bits of which the lowest
\* drop bits go; sticky tells that a remainder lies below q
FRoundBits(q, sticky, drop, e) ==
    LET low == q[1] % (2 ^ drop)
        half == 2 ^ (drop - 1)
        odd == (q[1] \div (2 ^ drop)) % 2 = 1
        up == low > half \/ (low = half /\ (sticky \/ odd))
    IN  FPack(IF up THEN BigAdd(BigShr(q, drop), BigOne) ELSE BigShr(q, drop),
              e + drop)

FRoundQuotient(qr, e) == FRoundBits(qr[1], qr[2] # <<>>, BigBitLen(qr[1]) - 53, e)

FRoundShifted(n, d, e0, t) == FRoundQuotient(BigScaledDivMod(n, d, t), e0 - t)

\* the double nearest to n / d * 2^e0, for n > 0 and d > 0: the quotient is
\* taken to 54 or 55 bits and rounded once
FRound(n, d, e0) == FRoundShifted(n, d, e0, 54 - (BigBitLen(n) - BigBitLen(d)))

FOfInt(i) == IF i = 0 THEN FZero ELSE FRound(BigOf(i), BigOne, 0)

FDiv(x, y) == IF x = FZero THEN FZero ELSE FRound(x.m, y.m, x.e - y.e)

FMul(x, y) ==
    IF x = FZero \/ y = FZero THEN FZero
    ELSE FRound(BigMul(x.m, y.m), BigOne, x.e + y.e)

FAdd(x, y) ==
    IF x = FZero THEN y
    ELSE IF y = FZero THEN x
    ELSE LET lo == IF x.e <= y.e THEN x.e ELSE y.e
         IN  FRound(BigAdd(BigShl(x.m, x.e - lo), BigShl(y.m, y.e - lo)), BigOne, lo)

\* x < y
FLt(x, y) ==
    IF y = FZero THEN FALSE
    ELSE IF x = FZero THEN TRUE
    ELSE LET lo == IF x.e <= y.e THEN x.e ELSE y.e
         IN  BigLt(BigShl(x.m, x.e - lo), BigShl(y.m, y.e - lo))

FGe(x, y) == ~FLt(x, y)

\* the float of a positive rational literal, such as 0.1
FOfRat(r) == FRound(BigOf(r[1]), BigOf(r[2]), 0)

\* density = (inad / p * 1000)
Float64Density(inad, p) == FMul(FDiv(FOfInt(inad), FOfInt(p)), FOfInt(1000))

\* np.add.reduce of fewer than 8 values: added in order, starting from 0
RECURSIVE Float64Sum(_)
Float64Sum(ds) ==
    IF ds = <<>> THEN FZero
    ELSE FAdd(Float64Sum(SubSeq(ds, 1, Len(ds) - 1)), ds[Len(ds)])

Float64Mean(ds) == FDiv(Float64Sum(ds), FOfInt(Len(ds)))

Float64SortAsc(ds) == StableSort(ds, LAMBDA x, y : FLt(x, y))

\* np.median of the sorted values s: the middle value, or the mean of the two
\* middle values
Float64MedianOfSorted(s) ==
    IF Len(s) % 2 = 1 THEN s[(Len(s) + 1) \div 2]
    ELSE Float64Mean(<<s[Len(s) \div 2], s[Len(s) \div 2 + 1]>>)

Float64Median(ds) == Float64MedianOfSorted(Float64SortAsc(ds))

\* np.mean of the sorted values s without lowercut values at either end
Float64MeanWithoutEnds(s, lowercut) ==
    Float64Mean(SubSeq(s, lowercut + 1, Len(s) - lowercut))

\* scipy.stats.trim_mean: np.partition puts the values to cut at the two ends
\* (for up to three values this sorts them), np.mean takes the rest in order
Float64TrimMean(ds, trim_percent) ==
    Float64MeanWithoutEnds(Float64SortAsc(ds),
                           (trim_percent[1] * Len(ds)) \div trim_percent[2])

calculate_robust_threshold_float64(densities, method, trim_percent) ==
    LET valid == SelectSeq(densities, LAMBDA d : d.k = "num")
        valid_densities == Tuple([i \in 1..Len(valid) |-> valid[i].v])
    IN  IF Len(valid_densities) = 0 THEN FZero
        ELSE IF method = "median" THEN Float64Median(valid_densities)
        ELSE IF method = "trimmed_mean"
        THEN Float64TrimMean(valid_densities, trim_percent)
        ELSE Float64Mean(valid_densities)

classify_priority_float64(row, threshold, cfg) ==
    IF row.Density_permille = None THEN "NO_DATA"
    ELSE IF ~row.Reliable THEN "UNRELIABLE"
    ELSE LET above_threshold == FGe(row.Density_permille.v, threshold)
             above_min_density == FGe(row.Density_permille.v, FOfRat(cfg.min_density))
             high_multiplier ==
                 FGe(row.Density_permille.v,
                     FMul(threshold, FOfRat(cfg.high_priority_multiplier)))
             high_inad == row.INAD >= cfg.high_priority_min_inad
         IN  IF above_threshold /\ above_min_density /\ high_multiplier /\ high_inad
             THEN "HIGH_PRIORITY"
             ELSE IF above_threshold THEN "WATCH_LIST"
             ELSE "CLEAR"

\* the rows of Step3 with their densities, of routes given as <<INAD_Count, PAX>>
Step3Float64Densities(routes, cfg) ==
    Tuple([i \in 1..Len(routes) |->
        [INAD |-> routes[i][1],
         PAX |-> routes[i][2],
         Density_permille |->
             [k |-> "num", v |-> Float64Density(routes[i][1], routes[i][2])],
         Reliable |-> routes[i][2] >= cfg.min_pax]])

\* the rows classified against the threshold
Step3Float64Classified(rows, threshold, cfg) ==
    Tuple([i \in 1..Len(rows) |->
        [INAD |-> rows[i].INAD,
         PAX |-> rows[i].PAX,
         Density_permille |-> rows[i].Density_permille,
         Reliable |-> rows[i].Reliable,
         Priority |-> classify_priority_float64(rows[i], threshold, cfg),
         AboveThreshold |-> FGe(rows[i].Density_permille.v, threshold),
         Threshold |-> threshold,
         ThresholdMethod |-> cfg.threshold_method]])

Step3Float64Threshold(rows, cfg) ==
    Step3Float64Classified(
        rows,
        calculate_robust_threshold_float64(reliable_densities(rows),
                                           cfg.threshold_method, cfg.trimmed_percent),
        cfg)

\* calculate_step3_enhanced on passing routes with passengers, given as
\* <<INAD_Count, PAX>>, up to the classification
calculate_step3_float64(routes, cfg_arg) ==
    Step3Float64Threshold(Step3Float64Densities(routes, OrDefault(cfg_arg)),
                          OrDefault(cfg_arg))

----------------------------------------------------------------------------
(* The float specification: the Step3 classification of up to NumRoutes
   passing routes, in binary64 *)

\* <<INAD_Count, PAX>> of a passing route
Float64Routes == {<<6, 60000>>, <<7, 60000>>, <<12, 40000>>, <<6, 4000>>}

Float64ConfigArgs ==
    {<<[DEFAULT_CONFIG EXCEPT !.threshold_method = m[1], !.trimmed_percent = m[2]]>> :
         m \in MethodArgs}

InitF64 ==
    /\ pc = "call"
    /\ config \in Float64ConfigArgs
    /\ config0 = config
    /\ args \in [routes : UNION {[1..n -> Float64Routes] : n \in 1..NumRoutes}]
    /\ result = <<>>
    /\ idx = 0
    /\ loaded = <<>>
    /\ semester_results = <<>>
    /\ historical_step3 = <<>>
    /\ systemic = <<>>
    /\ previous = <<>>

CalculateStep3Float64 ==
    /\ pc = "call"
    /\ result' = <<calculate_step3_float64(args.routes, config)>>
    /\ pc' = "returned"
    /\ UNCHANGED <<config, config0, args, idx, loaded, semester_results,
                   historical_step3, systemic, previous>>

NextF64 == CalculateStep3Float64

SpecF64 == InitF64 /\ [][NextF64]_vars

----------------------------------------------------------------------------
(* Claims about the classification in binary64 (SpecF64) *)

\* C26: whenever the Step3 result of a period holds a reliable route, some
\* route is HIGH_PRIORITY or WATCH_LIST, for each of the three threshold
\* methods: the threshold never exceeds the greatest reliable density.
C26_SomeRouteFlagged ==
    (Returned /\ \E i \in 1..Len(result[1]) : result[1][i].Reliable) =>
        \E i \in 1..Len(result[1]) :
            result[1][i].Priority \in {"HIGH_PRIORITY", "WATCH_LIST"}

====
